---- MODULE Spec2Model ----
(***************************************************************************)
(* Model of the llaisys tensor layer (src/src/tensor/tensor.cpp) and of    *)
(* the operator kernels (src/src/ops).                                     *)
(*                                                                         *)
(* Tensor layer (Spec): a pool of tensor handles, the storages they own,   *)
(* the runtime's current device, a record of the last call (operation,     *)
(* arguments, outcome) and the runtime calls it issued.  Memory is         *)
(* modelled byte by byte: strides are in elements, offsets in bytes,       *)
(* exactly as in the source.                                               *)
(*                                                                         *)
(* Operator kernels (OpsSpec): one kernel call on argument tensors drawn   *)
(* from bounded sets; the record of the call holds the arguments, the      *)
(* outcome and the contents of the outputs afterwards.                     *)
(***************************************************************************)
EXTENDS Integers, Sequences, FiniteSets, TLC

VARIABLES tensors, storages, curDevice, last, nops, ncreate, rt, kernel

vars == <<tensors, storages, curDevice, last, nops, ncreate, rt, kernel>>

(* ------------------------------ bounds --------------------------------- *)
MaxTensors  == 3      \* tensor handles alive at once
MaxStorages == 3      \* storages alive at once
MaxRank     == 2      \* longest shape / order / view argument
MaxExtent   == 2      \* largest extent in a created shape
MaxOps      == 4      \* calls in one run
MaxCreates  == 1      \* of which calls of Tensor::create by the caller

(* ----------------------------- constants ------------------------------- *)
AnyDevice  == -1      \* the "any id" argument of Tensor::to

\* A new buffer is not initialised: its bytes are whatever the allocator
\* returns.  Each fill f stands for one such content, the pairwise distinct
\* bytes f+1, f+2, ...  A read outside a buffer returns one of Garbage.
Fills      == {0, 100}
Garbage    == {-2, -3}

DTypes  == {"I8", "F16"}
Kinds   == {"CPU", "NVIDIA"}
Devices == {<<"CPU", 0>>, <<"NVIDIA", 0>>}

TensorIds  == 1..MaxTensors
StorageIds == 1..MaxStorages

(* ------------------------------ helpers -------------------------------- *)
SeqsUpTo(S, n) == UNION {[1..k -> S] : k \in 0..n}

Min(S) == CHOOSE x \in S : \A y \in S : x <= y

RECURSIVE Product(_)
Product(s) == IF s = <<>> THEN 1 ELSE Head(s) * Product(Tail(s))

\* utils::dsize: bytes per element
dsize(dtype) ==
    CASE dtype = "I8"  -> 1
      [] dtype = "F16" -> 2
      [] dtype = "BF16" -> 2
      [] dtype = "F32" -> 4
      [] dtype = "I32" -> 4
      [] dtype = "I64" -> 8
      [] OTHER         -> 1

NoTensor  == [dtype |-> "none", shape |-> <<>>, strides |-> <<>>,
              offset |-> 0, storage |-> 0]
NoStorage == [size |-> 0, kind |-> "none", id |-> 0, mem |-> <<>>,
              owners |-> 0, live |-> FALSE]

\* Tensor::Tensor(meta, storage, offset)
Tensor(dtype, shape, strides, storage, offset) ==
    [dtype |-> dtype, shape |-> shape, strides |-> strides,
     offset |-> offset, storage |-> storage]

ndim(t)        == Len(t.shape)
numel(t)       == Product(t.shape)
elementSize(t) == dsize(t.dtype)
deviceType(t)  == storages[t.storage].kind
deviceId(t)    == storages[t.storage].id

\* row-major strides of a shape (the loop of create, and of view)
RECURSIVE RowMajorFrom(_, _, _)
RowMajorFrom(shape, i, stride) ==
    IF i = 0 THEN <<>>
    ELSE Append(RowMajorFrom(shape, i - 1, stride * shape[i]), stride)

RowMajor(shape) == RowMajorFrom(shape, Len(shape), 1)

\* Tensor::isContiguous: walk from the last axis, compare with the expected stride
RECURSIVE isContiguousFrom(_, _, _)
isContiguousFrom(t, i, expected) ==
    IF i = 0 THEN TRUE
    ELSE IF t.strides[i] # expected THEN FALSE
    ELSE isContiguousFrom(t, i - 1, expected * t.shape[i])

isContiguous(t) == isContiguousFrom(t, Len(t.shape), 1)

(* --------------------------- memory access ----------------------------- *)
\* byte at address a of a buffer; a read outside the buffer is undefined
\* behaviour and yields the garbage byte g
ReadByte(mem, a, g) == IF a >= 0 /\ a < Len(mem) THEN mem[a + 1] ELSE g

\* all multi-indices of a shape (0-based, as in the source)
MultiIdx(shape) ==
    {idx \in [1..Len(shape) -> 0..Product(shape)] :
        \A k \in 1..Len(shape) : idx[k] < shape[k]}

RECURSIVE Dot(_, _)
Dot(a, b) == IF a = <<>> THEN 0 ELSE Head(a) * Head(b) + Dot(Tail(a), Tail(b))

\* byte address, inside the storage, of the element at multi-index idx:
\* byte_offset + (sum_k idx[k] * strides[k]) * element_size
ElemAddr(t, idx) == t.offset + Dot(idx, t.strides) * elementSize(t)

\* the element_size bytes of the element at idx
Elem(t, mem, idx, g) ==
    [k \in 1..elementSize(t) |-> ReadByte(mem, ElemAddr(t, idx) + k - 1, g)]

\* Tensor::data() plus nbytes: the bytes a raw memcpy reads
ReadRange(mem, from, nbytes, g) ==
    [k \in 1..nbytes |-> ReadByte(mem, from + k - 1, g)]

\* std::memcpy(dst + at, src, Len(src)) into a buffer; bytes that would land
\* outside the buffer are not representable and are dropped here (the call
\* is flagged as undefined behaviour by the caller)
WriteRange(mem, at, src) ==
    [a \in 1..Len(mem) |->
        IF a - 1 >= at /\ a - 1 < at + Len(src) THEN src[a - at] ELSE mem[a]]

(* ------------------------- storage ownership --------------------------- *)
FreeTensorIds  == {i \in TensorIds : tensors[i].storage = 0}
LiveTensorIds  == TensorIds \ FreeTensorIds
FreeStorageIds == {s \in StorageIds : ~storages[s].live}

\* faulty variant of Share: the new tensor keeps a bare pointer and takes
\* no ownership
ShareNoOwner(st, sid) == st

\* copying the shared storage pointer into a new Tensor adds one owner
Share(st, sid) == [st EXCEPT ![sid].owners = @ + 1]

\* releasing one owner; the buffer is freed when the last owner goes
Release(st, sid) ==
    IF st[sid].owners = 1 THEN [st EXCEPT ![sid] = NoStorage]
    ELSE [st EXCEPT ![sid].owners = @ - 1]

\* n distinct bytes base+1 .. base+n
HostBytes(base, n) == [j \in 1..n |-> base + j]

\* runtime().allocateDeviceStorage(size) on the bound device; the buffer is
\* not initialised: its contents are whatever the allocator returns (fill)
allocateDeviceStorage(size, kind, id, fill) ==
    [size |-> size, kind |-> kind, id |-> id,
     mem |-> HostBytes(fill, size), owners |-> 1, live |-> TRUE]

\* runtime().allocateHostStorage(size): host memory, owned by the CPU
allocateHostStorage(size, fill) ==
    [size |-> size, kind |-> "CPU", id |-> 0,
     mem |-> HostBytes(fill, size), owners |-> 1, live |-> TRUE]

(* --------------------------- runtime calls ----------------------------- *)
\* one call into the device runtime, with the device current when it is
\* issued (for set_device: the device it selects)
RtCall(call, cur) == [call |-> call, cur |-> cur]

\* the runtime calls of one operation, and the device current on entry
Runtime(entry, calls) == [entry |-> entry, calls |-> calls]

(* ------------------------------ create --------------------------------- *)
\* faulty variant of createUsesHost: host allocation whenever an accelerator
\* is current, whatever kind is asked for
createUsesHostAnyKind(cur, kind) == cur[1] # "CPU"

\* the branch of Tensor::create: host allocation when a CPU tensor is asked
\* for while an accelerator is current, else setDevice + device allocation
createUsesHost(cur, kind) == kind = "CPU" /\ cur[1] # "CPU"

createDevice(cur, kind, id) ==
    IF createUsesHost(cur, kind) THEN cur ELSE <<kind, id>>

createStorage(cur, shape, dtype, kind, id, fill) ==
    IF createUsesHost(cur, kind)
    THEN allocateHostStorage(Product(shape) * dsize(dtype), fill)
    ELSE allocateDeviceStorage(Product(shape) * dsize(dtype), kind, id, fill)

\* the runtime calls of Tensor::create, in order
createCalls(cur, kind, id) ==
    IF createUsesHost(cur, kind)
    THEN <<RtCall("allocate_host", cur)>>
    ELSE <<RtCall("set_device", <<kind, id>>),
           RtCall("allocate_device", <<kind, id>>)>>

createTensor(shape, dtype, sid) == Tensor(dtype, shape, RowMajor(shape), sid, 0)

\* calls are issued while the call budget lasts; an exception (the library
\* has no handler) or an access outside a buffer ends the run
Running == nops < MaxOps /\ last.ok /\ ~last.ub

\* the record of the last call
Call(op, ok, err, src, res, arg, kind, fresh, ub) ==
    [op |-> op, ok |-> ok, err |-> err, src |-> src, res |-> res,
     arg |-> arg, kind |-> kind, fresh |-> fresh, ub |-> ub]

create(shape, dtype, kind, id, fill) ==
    /\ Running
    /\ ncreate < MaxCreates
    /\ FreeTensorIds # {}
    /\ FreeStorageIds # {}
    /\ LET r == Min(FreeTensorIds)
           s == Min(FreeStorageIds)
       IN /\ tensors' = [tensors EXCEPT ![r] = createTensor(shape, dtype, s)]
          /\ storages' = [storages EXCEPT
                            ![s] = createStorage(curDevice, shape, dtype, kind, id, fill)]
          /\ curDevice' = createDevice(curDevice, kind, id)
          /\ last' = Call("create", TRUE, "", 0, r, shape, kind, s, FALSE)
          /\ rt' = Runtime(curDevice, createCalls(curDevice, kind, id))
    /\ nops' = nops + 1
    /\ ncreate' = ncreate + 1
    /\ UNCHANGED kernel

(* ------------------------------ permute -------------------------------- *)
\* the two checks of Tensor::permute: length, then each index < ndim
permuteError(t, order) ==
    IF Len(order) # ndim(t) THEN "Invalid permutation order"
    ELSE IF \E i \in 1..Len(order) : order[i] >= ndim(t)
         THEN "Permutation index out of range"
         ELSE ""

\* faulty variant of permuteTensor: the shape is reordered, the strides are
\* left as they were
permuteTensorKeepStrides(t, order) ==
    Tensor(t.dtype,
           [i \in 1..ndim(t) |-> t.shape[order[i] + 1]],
           t.strides,
           t.storage, t.offset)

permuteTensor(t, order) ==
    Tensor(t.dtype,
           [i \in 1..ndim(t) |-> t.shape[order[i] + 1]],
           [i \in 1..ndim(t) |-> t.strides[order[i] + 1]],
           t.storage, t.offset)

permute(src, order) ==
    /\ Running
    /\ src \in LiveTensorIds
    /\ FreeTensorIds # {}
    /\ LET t == tensors[src]
           r == Min(FreeTensorIds)
           err == permuteError(t, order)
       IN IF err = ""
          THEN /\ tensors' = [tensors EXCEPT ![r] = permuteTensor(t, order)]
               /\ storages' = Share(storages, t.storage)
               /\ last' = Call("permute", TRUE, "", src, r, order, "", 0, FALSE)
          ELSE /\ UNCHANGED <<tensors, storages>>
               /\ last' = Call("permute", FALSE, err, src, 0, order, "", 0, FALSE)
    /\ nops' = nops + 1
    /\ rt' = Runtime(curDevice, <<>>)
    /\ UNCHANGED ncreate
    /\ UNCHANGED curDevice
    /\ UNCHANGED kernel

(* ------------------------------- view ---------------------------------- *)
\* faulty variant of viewError: the contiguity test is missing
viewErrorNoContiguity(t, shape) ==
    IF Product(shape) # numel(t) THEN "view: total elements mismatch" ELSE ""

\* Tensor::view: element count first, then contiguity
viewError(t, shape) ==
    IF Product(shape) # numel(t) THEN "view: total elements mismatch"
    ELSE IF ~isContiguous(t) THEN "view on non-contiguous tensor not supported"
    ELSE ""

viewTensor(t, shape) == Tensor(t.dtype, shape, RowMajor(shape), t.storage, t.offset)

viewCall(op, src, shape) ==
    /\ Running
    /\ src \in LiveTensorIds
    /\ FreeTensorIds # {}
    /\ LET t == tensors[src]
           r == Min(FreeTensorIds)
           err == viewError(t, shape)
       IN IF err = ""
          THEN /\ tensors' = [tensors EXCEPT ![r] = viewTensor(t, shape)]
               /\ storages' = Share(storages, t.storage)
               /\ last' = Call(op, TRUE, "", src, r, shape, "", 0, FALSE)
          ELSE /\ UNCHANGED <<tensors, storages>>
               /\ last' = Call(op, FALSE, err, src, 0, shape, "", 0, FALSE)
    /\ nops' = nops + 1
    /\ rt' = Runtime(curDevice, <<>>)
    /\ UNCHANGED ncreate
    /\ UNCHANGED curDevice
    /\ UNCHANGED kernel

view(src, shape) == viewCall("view", src, shape)

\* Tensor::reshape returns view(shape)
reshape(src, shape) == viewCall("reshape", src, shape)

(* ------------------------------- slice --------------------------------- *)
sliceError(t, dim, start, end) ==
    IF dim >= ndim(t) THEN "slice: dim out of range"
    ELSE IF start > end \/ end > t.shape[dim + 1] THEN "slice: invalid range"
    ELSE ""

\* faulty variant of sliceOffset: the element offset is added to the byte
\* offset unconverted
sliceOffsetInElements(t, dim, start) == t.offset + start * t.strides[dim + 1]

\* element offset start * strides[dim], converted to bytes once
sliceOffset(t, dim, start) ==
    t.offset + (start * t.strides[dim + 1]) * elementSize(t)

sliceTensor(t, dim, start, end) ==
    Tensor(t.dtype, [t.shape EXCEPT ![dim + 1] = end - start], t.strides,
           t.storage, sliceOffset(t, dim, start))

slice(src, dim, start, end) ==
    /\ Running
    /\ src \in LiveTensorIds
    /\ FreeTensorIds # {}
    /\ LET t == tensors[src]
           r == Min(FreeTensorIds)
           err == sliceError(t, dim, start, end)
           arg == <<dim, start, end>>
       IN IF err = ""
          THEN /\ tensors' = [tensors EXCEPT ![r] = sliceTensor(t, dim, start, end)]
               /\ storages' = Share(storages, t.storage)
               /\ last' = Call("slice", TRUE, "", src, r, arg, "", 0, FALSE)
          ELSE /\ UNCHANGED <<tensors, storages>>
               /\ last' = Call("slice", FALSE, err, src, 0, arg, "", 0, FALSE)
    /\ nops' = nops + 1
    /\ rt' = Runtime(curDevice, <<>>)
    /\ UNCHANGED ncreate
    /\ UNCHANGED curDevice
    /\ UNCHANGED kernel

(* ------------------------------- load ---------------------------------- *)
\* the host buffers handed to load
LoadBases == {200}

\* memcpy of numel * element_size bytes to data()
loadMem(t, mem, base) ==
    WriteRange(mem, t.offset, HostBytes(base, numel(t) * elementSize(t)))

\* a raw copy of nbytes starting at byte "from" leaves a buffer of "size" bytes
OutOfRange(from, nbytes, size) == nbytes > 0 /\ from + nbytes > size

\* the runtime calls of load: none for a CPU tensor (std::memcpy), else
\* setDevice to the tensor's device and one host-to-device copy
loadCalls(kind, id) ==
    IF kind = "CPU" THEN <<>>
    ELSE <<RtCall("set_device", <<kind, id>>),
           RtCall("memcpy_sync", <<kind, id>>)>>

load(src, base) ==
    /\ Running
    /\ src \in LiveTensorIds
    /\ LET t == tensors[src]
           st == storages[t.storage]
       IN /\ storages' = [storages EXCEPT ![t.storage].mem = loadMem(t, st.mem, base)]
          /\ curDevice' = IF st.kind = "CPU" THEN curDevice ELSE <<st.kind, st.id>>
          /\ last' = Call("load", TRUE, "", src, 0, <<base>>, "", 0,
                          OutOfRange(t.offset, numel(t) * elementSize(t), st.size))
          /\ rt' = Runtime(curDevice, loadCalls(st.kind, st.id))
    /\ nops' = nops + 1
    /\ UNCHANGED ncreate
    /\ UNCHANGED tensors
    /\ UNCHANGED kernel

(* ----------------------------- contiguous ------------------------------ *)
\* the inner loop of contiguous: delinearize idx against the destination
\* strides, remap through the source strides
RECURSIVE gatherOffset(_, _, _, _)
gatherOffset(idx, d, outStrides, srcStrides) ==
    IF d > Len(outStrides) THEN 0
    ELSE (idx \div outStrides[d]) * srcStrides[d]
         + gatherOffset(idx % outStrides[d], d + 1, outStrides, srcStrides)

\* byte address read for byte k of destination element i
gatherAddr(t, i, k) ==
    t.offset + gatherOffset(i, 1, RowMajor(t.shape), t.strides) * elementSize(t) + k

contiguousMem(t, mem, g) ==
    [b \in 1..numel(t) * elementSize(t) |->
        ReadByte(mem,
                 gatherAddr(t, (b - 1) \div elementSize(t), (b - 1) % elementSize(t)),
                 g)]

gatherOutOfRange(t, size) ==
    \E i \in 0..numel(t) - 1 : gatherAddr(t, i, elementSize(t) - 1) >= size

GarbageFor(oob) == IF oob THEN Garbage ELSE {Min(Garbage)}

\* faulty variant of contiguousAllocates: contiguous() copies whatever the
\* layout
contiguousAlwaysAllocates(t) == TRUE

\* the first line of contiguous(): a contiguous tensor is returned as it is,
\* any other gets a new buffer from create
contiguousAllocates(t) == ~isContiguous(t)

contiguousTensor(t, sid) ==
    IF contiguousAllocates(t) THEN createTensor(t.shape, t.dtype, sid) ELSE t

\* a tensor together with what it addresses: the bytes and device of its
\* storage, and the runtime's current device
Value(t, mem, kind, id, cur) ==
    [t |-> t, mem |-> mem, kind |-> kind, id |-> id, cur |-> cur, ok |-> TRUE]

ValueOf(t) ==
    Value(t, storages[t.storage].mem, storages[t.storage].kind,
          storages[t.storage].id, curDevice)

\* Tensor::contiguous on a value: what is returned (t, mem, device), the
\* current device afterwards, and whether it returned at all
contiguousValue(v, g) ==
    IF ~contiguousAllocates(v.t) THEN v
    ELSE LET out == createStorage(v.cur, v.t.shape, v.t.dtype, v.kind, v.id, 0)
             cur == createDevice(v.cur, v.kind, v.id)
         IN IF v.kind = "CPU"
            THEN [Value(contiguousTensor(v.t, 0), contiguousMem(v.t, v.mem, g),
                        out.kind, out.id, cur) EXCEPT !.ok = v.ok]
            ELSE [v EXCEPT !.cur = cur, !.ok = FALSE]

contiguous(src) ==
    /\ Running
    /\ src \in LiveTensorIds
    /\ FreeTensorIds # {}
    /\ LET t == tensors[src]
           st == storages[t.storage]
           r == Min(FreeTensorIds)
       IN IF ~contiguousAllocates(t)
          THEN /\ tensors' = [tensors EXCEPT ![r] = contiguousValue(ValueOf(t), 0).t]
               /\ storages' = Share(storages, t.storage)
               /\ last' = Call("contiguous", TRUE, "", src, r, <<>>, "", 0, FALSE)
               /\ rt' = Runtime(curDevice, <<>>)
               /\ UNCHANGED curDevice
          ELSE /\ FreeStorageIds # {}
               /\ \E g \in GarbageFor(gatherOutOfRange(t, st.size)) :
                  LET s == Min(FreeStorageIds)
                      v == contiguousValue(ValueOf(t), g)
                      out == createStorage(curDevice, t.shape, t.dtype, st.kind, st.id, 0)
                  IN /\ curDevice' = v.cur
                     /\ rt' = Runtime(curDevice, createCalls(curDevice, st.kind, st.id))
                     /\ IF v.ok
                        THEN /\ tensors' = [tensors EXCEPT
                                              ![r] = [v.t EXCEPT !.storage = s]]
                             /\ storages' = [storages EXCEPT
                                               ![s] = [out EXCEPT !.mem = v.mem]]
                             /\ last' = Call("contiguous", TRUE, "", src, r, <<>>, "", s,
                                             gatherOutOfRange(t, st.size))
                        ELSE /\ UNCHANGED <<tensors, storages>>
                             /\ last' = Call("contiguous", FALSE,
                                             "contiguous for non-CPU device not implemented",
                                             src, 0, <<>>, "", 0, FALSE)
    /\ nops' = nops + 1
    /\ UNCHANGED ncreate
    /\ UNCHANGED kernel

(* --------------------------------- to ---------------------------------- *)
\* the first test of to(): already on the device asked for
toIsIdentity(tkind, tid, kind, id) ==
    kind = tkind /\ (id = AnyDevice \/ id = tid)

\* the bytes the raw copy of to() moves: numel * element_size from data()
toMem(t, mem, g) == ReadRange(mem, t.offset, numel(t) * elementSize(t), g)

\* Tensor::to on a value
toValue(v, kind, id, g) ==
    IF toIsIdentity(v.kind, v.id, kind, id) THEN v
    ELSE LET out == createStorage(v.cur, v.t.shape, v.t.dtype, kind, id, 0)
         IN [Value(createTensor(v.t.shape, v.t.dtype, 0), toMem(v.t, v.mem, g),
                   out.kind, out.id, createDevice(v.cur, kind, id))
               EXCEPT !.ok = v.ok]

\* the runtime calls of a copying to(): those of create, then one
\* memcpy_sync unless both sides are CPU (std::memcpy); to() itself never
\* selects a device
toCalls(cur, tkind, kind, id) ==
    createCalls(cur, kind, id)
    \o (IF tkind = "CPU" /\ kind = "CPU" THEN <<>>
        ELSE <<RtCall("memcpy_sync", createDevice(cur, kind, id))>>)

\* the id argument is a device id or AnyDevice; AnyDevice is passed only
\* with the tensor's own device kind (what create does with id -1 is decided
\* by the runtime, outside this file)
to(src, kind, id) ==
    /\ Running
    /\ src \in LiveTensorIds
    /\ FreeTensorIds # {}
    /\ id = AnyDevice => kind = deviceType(tensors[src])
    /\ LET t == tensors[src]
           st == storages[t.storage]
           r == Min(FreeTensorIds)
           oob == OutOfRange(t.offset, numel(t) * elementSize(t), st.size)
       IN IF toIsIdentity(st.kind, st.id, kind, id)
          THEN /\ tensors' = [tensors EXCEPT ![r] = toValue(ValueOf(t), kind, id, 0).t]
               /\ storages' = Share(storages, t.storage)
               /\ last' = Call("to", TRUE, "", src, r, <<id>>, kind, 0, FALSE)
               /\ rt' = Runtime(curDevice, <<>>)
               /\ UNCHANGED curDevice
          ELSE /\ FreeStorageIds # {}
               /\ \E g \in GarbageFor(oob) :
                  LET s == Min(FreeStorageIds)
                      v == toValue(ValueOf(t), kind, id, g)
                      out == createStorage(curDevice, t.shape, t.dtype, kind, id, 0)
                  IN /\ curDevice' = v.cur
                     /\ tensors' = [tensors EXCEPT ![r] = [v.t EXCEPT !.storage = s]]
                     /\ storages' = [storages EXCEPT ![s] = [out EXCEPT !.mem = v.mem]]
                     /\ last' = Call("to", TRUE, "", src, r, <<id>>, kind, s, oob)
                     /\ rt' = Runtime(curDevice, toCalls(curDevice, st.kind, kind, id))
    /\ nops' = nops + 1
    /\ UNCHANGED ncreate
    /\ UNCHANGED kernel

(* -------------------------------- debug -------------------------------- *)
\* the runtime calls of debug: setDevice to the tensor's device and a
\* device_synchronize; for a tensor off the CPU also a temporary host
\* tensor from create (default device CPU 0) and one device-to-host copy
debugCalls(kind, id) ==
    <<RtCall("set_device", <<kind, id>>),
      RtCall("device_synchronize", <<kind, id>>)>>
    \o (IF kind = "CPU" THEN <<>>
        ELSE createCalls(<<kind, id>>, "CPU", 0)
             \o <<RtCall("memcpy_sync", createDevice(<<kind, id>>, "CPU", 0))>>)

\* debug reads outside the storage: the element walk of debug_print on the
\* CPU, the raw copy of numel * element_size bytes from data() elsewhere
debugOutOfRange(t, kind, size) ==
    IF kind = "CPU"
    THEN \E idx \in MultiIdx(t.shape) :
            ElemAddr(t, idx) < 0 \/ ElemAddr(t, idx) + elementSize(t) > size
    ELSE OutOfRange(t.offset, numel(t) * elementSize(t), size)

\* Tensor::debug: prints; the pool is left as it is (the temporary tensor
\* is gone on return), the current device is the tensor's
debug(src) ==
    /\ Running
    /\ src \in LiveTensorIds
    /\ LET t == tensors[src]
           st == storages[t.storage]
       IN /\ curDevice' = <<st.kind, st.id>>
          /\ last' = Call("debug", TRUE, "", src, 0, <<>>, "", 0,
                          debugOutOfRange(t, st.kind, st.size))
          /\ rt' = Runtime(curDevice, debugCalls(st.kind, st.id))
    /\ nops' = nops + 1
    /\ UNCHANGED <<tensors, storages, ncreate, kernel>>

(* -------------------------------- drop --------------------------------- *)
\* the last handle of a tensor goes away: the tensor releases its storage
drop(src) ==
    /\ Running
    /\ src \in LiveTensorIds
    /\ tensors' = [tensors EXCEPT ![src] = NoTensor]
    /\ storages' = Release(storages, tensors[src].storage)
    /\ last' = Call("drop", TRUE, "", src, 0, <<>>, "", 0, FALSE)
    /\ nops' = nops + 1
    /\ rt' = Runtime(curDevice, <<>>)
    /\ UNCHANGED ncreate
    /\ UNCHANGED curDevice
    /\ UNCHANGED kernel

(* --------------------------- specification ----------------------------- *)
Shapes     == [1..MaxRank -> 1..MaxExtent]
ViewShapes == SeqsUpTo(0..MaxExtent, MaxRank) \cup {<<MaxExtent * MaxExtent>>}
Orders    == SeqsUpTo(0..MaxRank, MaxRank)

\* no kernel has been called
NoKernel == [op |-> "none"]

\* the pool is empty; the runtime's current device is whatever earlier
\* work of the process left selected
Init ==
    /\ tensors = [i \in TensorIds |-> NoTensor]
    /\ storages = [s \in StorageIds |-> NoStorage]
    /\ curDevice \in Devices
    /\ last = Call("init", TRUE, "", 0, 0, <<>>, "", 0, FALSE)
    /\ nops = 0
    /\ ncreate = 0
    /\ rt = Runtime(curDevice, <<>>)
    /\ kernel = NoKernel

Next ==
    \/ \E shape \in Shapes, dtype \in DTypes, dev \in Devices, fill \in Fills :
          create(shape, dtype, dev[1], dev[2], fill)
    \/ \E src \in TensorIds, order \in Orders : permute(src, order)
    \/ \E src \in TensorIds, shape \in ViewShapes : view(src, shape)
    \/ \E src \in TensorIds, shape \in ViewShapes : reshape(src, shape)
    \/ \E src \in TensorIds, dim \in 0..MaxRank,
          start \in 0..MaxExtent, end \in 0..MaxExtent + 1 :
          slice(src, dim, start, end)
    \/ \E src \in TensorIds, base \in LoadBases : load(src, base)
    \/ \E src \in TensorIds : contiguous(src)
    \/ \E src \in TensorIds, kind \in Kinds, id \in {AnyDevice, 0} : to(src, kind, id)
    \/ \E src \in TensorIds : debug(src)
    \/ \E src \in TensorIds : drop(src)

Spec == Init /\ [][Next]_vars

TypeOK ==
    /\ nops \in 0..MaxOps
    /\ curDevice \in Devices
    /\ \A i \in TensorIds : tensors[i].storage \in 0..MaxStorages

(* ======================= properties of the tensor layer ================= *)
Mem(t)  == storages[t.storage].mem
Size(t) == storages[t.storage].size

SrcT == tensors[last.src]
ResT == tensors[last.res]

\* order is a permutation of 0 .. n-1
IsPermutation(order, n) ==
    /\ Len(order) = n
    /\ \A i \in 1..n : order[i] \in 0..n - 1
    /\ \A i, j \in 1..n : order[i] = order[j] => i = j

InverseOrder(order) ==
    [i \in 1..Len(order) |-> (CHOOSE j \in 1..Len(order) : order[j] = i - 1) - 1]

\* strides[k] is the product of the extents after k
IsRowMajor(shape, strides) ==
    /\ Len(strides) = Len(shape)
    /\ \A k \in 1..Len(shape) :
          strides[k] = Product(SubSeq(shape, k + 1, Len(shape)))

\* the element at idx lies inside the storage
ElemInStorage(t, idx) ==
    ElemAddr(t, idx) >= 0 /\ ElemAddr(t, idx) + elementSize(t) <= Size(t)

\* every multi-index addresses its own location inside the storage
WellFormed(t) ==
    /\ \A idx \in MultiIdx(t.shape) : ElemInStorage(t, idx)
    /\ \A a, b \in MultiIdx(t.shape) : ElemAddr(t, a) = ElemAddr(t, b) => a = b

SameMeta(a, b) ==
    /\ a.dtype = b.dtype
    /\ a.shape = b.shape
    /\ a.strides = b.strides
    /\ a.offset = b.offset

\* C1: every element address of every live tensor, byte_offset +
\* (sum_k i_k * strides[k]) * element_size, lies in [0, storage.size)
C1_ElementsInsideStorage ==
    \A i \in LiveTensorIds :
        \A idx \in MultiIdx(tensors[i].shape) :
            /\ ElemAddr(tensors[i], idx) >= 0
            /\ ElemAddr(tensors[i], idx) < Size(tensors[i])

\* C2: numel * element_size of every live tensor is at most the size of
\* its storage
C2_NumelFitsStorage ==
    \A i \in LiveTensorIds :
        numel(tensors[i]) * elementSize(tensors[i]) <= Size(tensors[i])

\* C3: permute returns a tensor only for true permutations of 0 .. ndim-1;
\* a wrong length, an index >= ndim or a repeated index is an error
C3_PermuteRejectsNonPermutations ==
    last.op = "permute" =>
        (last.ok <=> IsPermutation(last.arg, ndim(SrcT)))

\* C4: for a permutation sigma, permute(sigma) succeeds with shape[i] =
\* old shape[sigma[i]], strides[i] = old strides[sigma[i]], the same dtype,
\* storage and byte offset, and permuting the result by the inverse of sigma
\* gives back the tensor it came from
C4_PermuteRoundTrip ==
    (last.op = "permute" /\ IsPermutation(last.arg, ndim(SrcT))) =>
        /\ last.ok
        /\ ndim(ResT) = ndim(SrcT)
        /\ \A i \in 1..ndim(SrcT) :
              /\ ResT.shape[i] = SrcT.shape[last.arg[i] + 1]
              /\ ResT.strides[i] = SrcT.strides[last.arg[i] + 1]
        /\ ResT.dtype = SrcT.dtype
        /\ ResT.storage = SrcT.storage
        /\ ResT.offset = SrcT.offset
        /\ permuteError(ResT, InverseOrder(last.arg)) = ""
        /\ permuteTensor(ResT, InverseOrder(last.arg)) = SrcT

C4_Witness ==
    /\ last.op = "permute"
    /\ last.ok
    /\ last.arg = <<1, 0>>
    /\ SrcT.shape = <<1, 2>>
    /\ ResT.shape = <<2, 1>>
    /\ ResT.strides # SrcT.strides

\* C5: view and reshape succeed exactly when the tensor is contiguous and
\* the product of the new shape is numel; the result has the new shape,
\* row-major strides (isContiguous holds), the same numel, dtype, storage
\* and byte offset; a failed call returns no tensor
C5_ViewContract ==
    last.op \in {"view", "reshape"} =>
        /\ last.ok <=> (isContiguous(SrcT) /\ Product(last.arg) = numel(SrcT))
        /\ last.ok =>
              /\ ResT.shape = last.arg
              /\ IsRowMajor(last.arg, ResT.strides)
              /\ isContiguous(ResT)
              /\ numel(ResT) = numel(SrcT)
              /\ ResT.dtype = SrcT.dtype
              /\ ResT.storage = SrcT.storage
              /\ ResT.offset = SrcT.offset
        /\ ~last.ok => (last.res = 0 /\ last.err # "")

C5_Witness ==
    /\ last.op = "view"
    /\ last.ok
    /\ SrcT.shape = <<1, 2>>
    /\ SrcT.offset > 0
    /\ ResT.shape = <<2>>

\* C6: slice(dim, start, end) succeeds exactly when dim < ndim and start <=
\* end <= shape[dim]; the result shares the storage, differs in shape only
\* at dim (end - start), keeps the strides, and its byte offset is the source
\* offset plus start * strides[dim] * element_size; slice(d, 0, shape[d]) is
\* metadata-equal to the source
C6_SliceContract ==
    last.op = "slice" =>
        LET dim   == last.arg[1]
            start == last.arg[2]
            end   == last.arg[3]
        IN /\ last.ok <=>
                 (dim < ndim(SrcT) /\ start <= end /\ end <= SrcT.shape[dim + 1])
           /\ last.ok =>
                 /\ ndim(ResT) = ndim(SrcT)
                 /\ \A k \in 1..ndim(SrcT) :
                       ResT.shape[k] = IF k = dim + 1 THEN end - start
                                       ELSE SrcT.shape[k]
                 /\ ResT.strides = SrcT.strides
                 /\ ResT.dtype = SrcT.dtype
                 /\ ResT.storage = SrcT.storage
                 /\ ResT.offset = SrcT.offset
                                  + start * SrcT.strides[dim + 1] * elementSize(SrcT)
                 /\ (start = 0 /\ end = SrcT.shape[dim + 1]) => ResT = SrcT
           /\ ~last.ok => last.res = 0

C6_Witness ==
    /\ last.op = "slice"
    /\ last.ok
    /\ last.arg = <<0, 1, 2>>
    /\ SrcT.dtype = "F16"
    /\ SrcT.strides = <<2, 1>>
    /\ ResT.offset = 4

\* the result of a copying contiguous(): its own new storage, the shape and
\* dtype of the source, row-major strides, offset 0
IsFreshCopy ==
    /\ last.fresh # 0
    /\ ResT.storage = last.fresh
    /\ ResT.storage # SrcT.storage
    /\ storages[ResT.storage].owners = 1
    /\ ResT.shape = SrcT.shape
    /\ ResT.dtype = SrcT.dtype
    /\ IsRowMajor(ResT.shape, ResT.strides)
    /\ ResT.offset = 0

\* C7: contiguous() of a non-contiguous CPU tensor with numel > 0 returns a
\* tensor on new storage with the same shape and dtype, row-major strides and
\* offset 0, whose element at every multi-index is the source's element at
\* that multi-index; of a contiguous tensor it returns the same metadata on
\* the same storage
C7_ContiguousGathers ==
    (last.op = "contiguous" /\ deviceType(SrcT) = "CPU") =>
        /\ last.ok
        /\ isContiguous(SrcT) => (ResT = SrcT /\ last.fresh = 0)
        /\ (~isContiguous(SrcT) /\ numel(SrcT) > 0) =>
              /\ IsFreshCopy
              /\ \A idx \in MultiIdx(SrcT.shape) :
                    /\ ElemInStorage(SrcT, idx)
                    /\ Elem(ResT, Mem(ResT), idx, 0) = Elem(SrcT, Mem(SrcT), idx, 0)

\* contiguous() gathers correctly from every view whose multi-indices address
\* distinct locations inside the storage (true permutations and slices)
ContiguousGathersWellFormed ==
    (last.op = "contiguous" /\ deviceType(SrcT) = "CPU" /\ WellFormed(SrcT)) =>
        /\ last.ok
        /\ ~last.ub
        /\ isContiguous(SrcT) => (ResT = SrcT /\ last.fresh = 0)
        /\ (~isContiguous(SrcT) /\ numel(SrcT) > 0) =>
              /\ IsFreshCopy
              /\ \A idx \in MultiIdx(SrcT.shape) :
                    Elem(ResT, Mem(ResT), idx, 0) = Elem(SrcT, Mem(SrcT), idx, 0)

ContiguousGathersWitness ==
    /\ last.op = "contiguous"
    /\ deviceType(SrcT) = "CPU"
    /\ WellFormed(SrcT)
    /\ SrcT.shape = <<2, 2>>
    /\ SrcT.strides = <<1, 2>>
    /\ last.fresh # 0

\* C8: contiguous() is idempotent on metadata: the result of contiguous() on
\* a CPU tensor is contiguous, so a second contiguous() allocates nothing and
\* returns the same dtype, shape, strides and byte offset
C8_ContiguousIdempotent ==
    (last.op = "contiguous" /\ deviceType(SrcT) = "CPU") =>
        /\ last.ok
        /\ ~contiguousAllocates(ResT)
        /\ SameMeta(contiguousTensor(ResT, 0), ResT)
        /\ contiguousTensor(ResT, 0).storage = ResT.storage

C8_Witness ==
    /\ last.op = "contiguous"
    /\ last.ok
    /\ deviceType(SrcT) = "CPU"
    /\ ~isContiguous(SrcT)
    /\ last.fresh # 0
    /\ ~SameMeta(ResT, SrcT)

\* t.to(kind, id).to(original kind, original id).contiguous() as a value
RoundTrip(t, kind, id) ==
    contiguousValue(
        toValue(toValue(ValueOf(t), kind, id, Min(Garbage)),
                deviceType(t), deviceId(t), Min(Garbage)),
        Min(Garbage))

\* C9: for every tensor t and every target device, t.to(kind, id)
\* .to(original kind, original id).contiguous() holds at each multi-index
\* the element t holds there (stated for the views whose multi-indices
\* address distinct locations inside the storage)
C9_ToRoundTripKeepsElements ==
    \A i \in LiveTensorIds : \A dev \in Devices :
        LET t == tensors[i]
            v == RoundTrip(t, dev[1], dev[2])
        IN WellFormed(t) =>
              /\ v.ok
              /\ v.t.shape = t.shape
              /\ \A idx \in MultiIdx(t.shape) :
                    Elem(v.t, v.mem, idx, 0) = Elem(t, Mem(t), idx, 0)

\* the round trip keeps the elements of every contiguous tensor
ToRoundTripContiguous ==
    \A i \in LiveTensorIds : \A dev \in Devices :
        LET t == tensors[i]
            v == RoundTrip(t, dev[1], dev[2])
        IN (WellFormed(t) /\ isContiguous(t)) =>
              /\ v.ok
              /\ v.t.shape = t.shape
              /\ \A idx \in MultiIdx(t.shape) :
                    Elem(v.t, v.mem, idx, 0) = Elem(t, Mem(t), idx, 0)

\* C10: a storage is live exactly while some tensor owns it, and its owner
\* count is the number of tensors that reference it: every view, identity
\* contiguous() and identity to() is one more owner, and the buffer is freed
\* when, and only when, the last owning tensor is dropped
C10_StorageLifecycle ==
    /\ \A s \in StorageIds :
          /\ storages[s].live <=> (\E i \in LiveTensorIds : tensors[i].storage = s)
          /\ storages[s].owners =
                Cardinality({i \in LiveTensorIds : tensors[i].storage = s})
    /\ \A i \in LiveTensorIds : storages[tensors[i].storage].live

C10_Witness ==
    /\ last.op = "drop"
    /\ nops = 4
    /\ \A s \in StorageIds : ~storages[s].live
    /\ LiveTensorIds = {}

\* the last call copied bytes: load always does, to() and contiguous() when
\* they return a new buffer
CopiedBytes == last.op = "load" \/ (last.op \in {"to", "contiguous"} /\ last.fresh # 0)

\* C11: the byte ranges accessed by load (destination), to (source and
\* destination) and contiguous (source and destination) lie inside
\* [0, storage.size): byte_offset + numel * element_size is at most the size
\* of the storage read or written, and no byte outside a storage is touched
C11_RangesInsideStorage ==
    (CopiedBytes /\ last.ok) =>
        /\ SrcT.offset + numel(SrcT) * elementSize(SrcT) <= Size(SrcT)
        /\ last.fresh # 0 =>
              ResT.offset + numel(ResT) * elementSize(ResT) <= Size(ResT)
        /\ ~last.ub

\* the same, for the non-empty tensors whose multi-indices address distinct
\* locations inside the storage (what create, true permutations, views and
\* non-empty slices give)
RangesInsideStorageWellFormed ==
    (CopiedBytes /\ last.ok /\ WellFormed(SrcT) /\ numel(SrcT) > 0) =>
        /\ SrcT.offset + numel(SrcT) * elementSize(SrcT) <= Size(SrcT)
        /\ last.fresh # 0 =>
              ResT.offset + numel(ResT) * elementSize(ResT) <= Size(ResT)
        /\ ~last.ub

RangesInsideStorageWitness ==
    /\ last.op = "load"
    /\ WellFormed(SrcT)
    /\ SrcT.offset > 0
    /\ ~isContiguous(SrcT)
    /\ numel(SrcT) > 0

\* the calls of the last operation that reach the device: copies and
\* synchronisation
DeviceCalls ==
    {i \in 1..Len(rt.calls) : rt.calls[i].call \in {"memcpy_sync", "device_synchronize"}}

\* C12: in load, to and debug, every memcpy_sync and device_synchronize is
\* issued with the current device bound to the device of the tensor operated
\* on, whatever device was current on entry
C12_DeviceBoundBeforeRuntimeCall ==
    last.op \in {"load", "to", "debug"} =>
        \A i \in DeviceCalls :
            rt.calls[i].cur = <<deviceType(SrcT), deviceId(SrcT)>>

\* a weaker reading: the copy of to() is issued with an accelerator bound
\* (either side of the copy)
ToCopyBoundToAccelerator ==
    last.op = "to" =>
        \A i \in DeviceCalls : rt.calls[i].cur[1] # "CPU"

\* load and debug bind the tensor's device before their runtime calls
LoadDebugBindDevice ==
    last.op \in {"load", "debug"} =>
        /\ \A i \in DeviceCalls :
               rt.calls[i].cur = <<deviceType(SrcT), deviceId(SrcT)>>
        /\ DeviceCalls # {} => curDevice = <<deviceType(SrcT), deviceId(SrcT)>>

LoadDebugBindDeviceWitness ==
    /\ last.op = "load"
    /\ deviceType(SrcT) = "NVIDIA"
    /\ rt.entry[1] = "CPU"
    /\ DeviceCalls # {}

\* C13: create returns the given shape, row-major strides (isContiguous
\* holds), byte offset 0 and a fresh storage of exactly numel * element_size
\* bytes; for kind CPU while the current device is not the CPU it allocates
\* through allocate_host and leaves the current device alone, in every other
\* case it sets the current device to the one asked for and then allocates
\* through allocate_device
C13_CreateContract ==
    last.op = "create" =>
        /\ last.ok
        /\ ResT.shape = last.arg
        /\ IsRowMajor(last.arg, ResT.strides)
        /\ isContiguous(ResT)
        /\ ResT.offset = 0
        /\ ResT.storage = last.fresh
        /\ storages[ResT.storage].owners = 1
        /\ \A i \in LiveTensorIds \ {last.res} : tensors[i].storage # ResT.storage
        /\ Size(ResT) = numel(ResT) * elementSize(ResT)
        /\ Len(Mem(ResT)) = Size(ResT)
        /\ IF last.kind = "CPU" /\ rt.entry[1] # "CPU"
           THEN /\ rt.calls = <<RtCall("allocate_host", rt.entry)>>
                /\ curDevice = rt.entry
                /\ deviceType(ResT) = "CPU"
           ELSE /\ Len(rt.calls) = 2
                /\ rt.calls[1].call = "set_device"
                /\ rt.calls[1].cur[1] = last.kind
                /\ rt.calls[2] = RtCall("allocate_device", rt.calls[1].cur)
                /\ curDevice = rt.calls[1].cur
                /\ <<deviceType(ResT), deviceId(ResT)>> = curDevice

C13_Witness ==
    /\ last.op = "create"
    /\ last.kind = "CPU"
    /\ rt.entry[1] = "NVIDIA"
    /\ curDevice[1] = "NVIDIA"
    /\ deviceType(ResT) = "CPU"
    /\ ResT.shape = <<2, 2>>
    /\ ResT.dtype = "F16"
    /\ Size(ResT) = 8

(* ========================== operator kernels =========================== *)
(* src/src/ops: embedding, rms_norm, linear, rope, self_attention, swiglu, *)
(* argmax.  A kernel is a function of its argument tensors: it checks      *)
(* them, then reads the inputs and writes the caller's outputs through     *)
(* data(), indexing the elements in storage order.                         *)

(* ------------------------------ bounds --------------------------------- *)
MaxLen   == 2      \* largest batch / sequence / vocabulary extent
MaxHeads == 2      \* largest number of heads
MaxDim   == 2      \* largest feature extent
MaxData  == 4      \* most elements of a tensor whose contents are enumerated
MaxScale == 1      \* largest attention scale
MaxFeatures == 5   \* largest in_features of linear
MaxEps   == 1      \* largest eps of rms_norm
MaxAlpha == 2      \* largest factor an input is scaled by
MaxRopeDim == 4    \* largest head dimension of rope

tensorVars == <<tensors, storages, curDevice, last, nops, ncreate, rt>>

FloatTypes == {"F32", "F16", "BF16"}

(* ---------------------------- arguments -------------------------------- *)
\* an argument tensor: the metadata of the tensor layer, the device of its
\* storage, and the elements of the storage from data() on, in storage order
Arg(t, kind, id, data) ==
    [dtype |-> t.dtype, shape |-> t.shape, strides |-> t.strides,
     offset |-> t.offset, kind |-> kind, id |-> id, data |-> data]

Reverse(s) == [i \in 1..Len(s) |-> s[Len(s) + 1 - i]]

\* elements 1, 2, ..., n: pairwise distinct and non-zero
Ramp(n) == [i \in 1..n |-> i]

\* elements 1, 1, ..., 1
Ones(n) == [i \in 1..n |-> 1]

\* what an output holds before the call: nothing any kernel computes
Stale(n) == [i \in 1..n |-> -9]

\* a dtype other than the one given
OtherDtype(dtype) == IF dtype = "F32" THEN "F16" ELSE "F32"

OtherKind(kind) == IF kind = "CPU" THEN "NVIDIA" ELSE "CPU"

\* how an argument departs from what the kernel expects
Traits == {"plain", "permuted", "device", "dtype", "rank", "extent"}

\* the shape an argument with this trait has
TraitShape(trait, shape) ==
    CASE trait = "rank"   -> <<1>> \o shape
      [] trait = "extent" -> [shape EXCEPT ![1] = @ + 1]
      [] OTHER            -> shape

\* an argument as the tensor layer hands it over: create(shape) on device
\* dev, or, for "permuted", create(reversed shape).permute(n-1, ..., 0), a
\* view of the same shape with column-major strides
MakeArg(trait, dev, dtype, shape, data) ==
    LET shp == TraitShape(trait, shape)
        n   == Len(shp)
        t   == IF trait = "permuted"
               THEN permuteTensor(createTensor(Reverse(shp), dtype, 0),
                                  [i \in 1..n |-> n - i])
               ELSE createTensor(shp, dtype, 0)
        ty  == IF trait = "dtype" THEN OtherDtype(dtype) ELSE dtype
        k   == IF trait = "device" THEN OtherKind(dev) ELSE dev
        d   == IF trait = "extent"
               THEN [i \in 1..Product(shp) |-> data[((i - 1) % Len(data)) + 1]]
               ELSE data
    IN Arg([t EXCEPT !.dtype = ty], k, 0, d)

\* CHECK_SAME_DEVICE: every argument on the device of the first
sameDevice(args) ==
    \A i \in 1..Len(args) :
        args[i].kind = args[1].kind /\ args[i].id = args[1].id

(* -------------------------- the call record ---------------------------- *)
\* a kernel call: its arguments, its outcome, the contents of its outputs
\* afterwards, the arguments whose data pointer was dereferenced, and, for
\* self_attention, the key/value positions visited per query
KernelCall(op, args, err, out, deref, ub, visits) ==
    [op |-> op, a |-> args, ok |-> err = "", err |-> err, out |-> out,
     deref |-> deref, ub |-> ub, visits |-> visits]

\* faulty variant of writesBeforeThrow: linear clears out ahead of the dtype
\* switch, so a call thrown out by the switch has zeroed it
writesBeforeThrowInDispatch(op, err) ==
    IF op = "linear" /\ err = "unsupported data type" THEN {"out"} ELSE {}

\* the outputs a kernel has stored into when it throws err: every ASSERT,
\* CHECK_* and device test precedes the first data() call, and the throw of
\* the dtype dispatch is the branch taken instead of the branches that store
writesBeforeThrow(op, err) == {}

\* a failed call: the outputs stored into before the throw are cleared, the
\* others are as they were
Failed(op, args, err, outs) ==
    KernelCall(op, args, err,
               [n \in outs |->
                   IF n \in writesBeforeThrow(op, err)
                   THEN [i \in 1..Len(args[n].data) |-> 0]
                   ELSE args[n].data],
               {}, FALSE, <<>>)

\* one call per run: a kernel keeps nothing from one call to the next
Idle == kernel.op = "none"

(* ----------------------------- embedding ------------------------------- *)
\* the checks of embedding, in the order of the source
embeddingError(out, index, weight) ==
    IF ~sameDevice(<<out, index, weight>>) THEN "device mismatch"
    ELSE IF ndim(index) # 1 THEN "Embedding: index must be 1-D tensor"
    ELSE IF index.dtype # "I64" THEN "Embedding: index must be int64 type"
    ELSE IF ndim(weight) # 2 THEN "Embedding: weight must be 2-D tensor"
    ELSE IF ndim(out) # 2 THEN "Embedding: output must be 2-D tensor"
    ELSE IF out.shape[1] # numel(index)
         THEN "Embedding: output batch size must match index length"
    ELSE IF out.shape[2] # weight.shape[2]
         THEN "Embedding: output embed_dim must match weight embed_dim"
    ELSE IF out.dtype # weight.dtype THEN "dtype mismatch"
    ELSE IF ~(isContiguous(out) /\ isContiguous(weight))
         THEN "Embedding: tensors must be contiguous for now"
    ELSE IF out.kind # "CPU" THEN "unsupported device"
    ELSE IF out.dtype \notin FloatTypes THEN "unsupported data type"
    ELSE ""

\* faulty variant of embeddingElem: an index outside the vocabulary is
\* served from row 0 of weight
embeddingElemFromRow0(idx, d, weight, vocab_size, embed_dim) ==
    IF idx < 0 \/ idx >= vocab_size THEN weight.data[d + 1]
    ELSE weight.data[idx * embed_dim + d + 1]

\* element d of an output row: zero for an index outside [0, vocab_size),
\* else element d of row idx of weight
embeddingElem(idx, d, weight, vocab_size, embed_dim) ==
    IF idx < 0 \/ idx >= vocab_size THEN 0
    ELSE weight.data[idx * embed_dim + d + 1]

\* the contents of out after the row loop b = 0 .. n-1
embeddingOut(out, index, weight) ==
    LET n          == numel(index)
        embed_dim  == out.shape[2]
        vocab_size == weight.shape[1]
    IN [p \in 1..Len(out.data) |->
          LET b == (p - 1) \div embed_dim
              d == (p - 1) % embed_dim
          IN IF b < n
             THEN embeddingElem(index.data[b + 1], d, weight, vocab_size, embed_dim)
             ELSE out.data[p]]

embedding(out, index, weight) ==
    /\ LET args == [out |-> out, index |-> index, weight |-> weight]
           err  == embeddingError(out, index, weight)
       IN kernel' =
            IF err # "" THEN Failed("embedding", args, err, {"out"})
            ELSE KernelCall("embedding", args, "",
                            [out |-> embeddingOut(out, index, weight)],
                            {"out", "index", "weight"}, FALSE, <<>>)
    /\ UNCHANGED tensorVars

(* ------------------------------- argmax -------------------------------- *)
ArgmaxTypes == {"F32", "F16", "BF16", "I32", "I64"}

\* the checks of argmax: an empty vals, then the dtype dispatch
argmaxError(vals) ==
    IF numel(vals) = 0 THEN "argmax: invalid input tensor"
    ELSE IF vals.dtype \notin ArgmaxTypes THEN "argmax: unsupported data type"
    ELSE ""

\* faulty variant of argmaxKeeps: the running maximum is replaced by an
\* equal element too
argmaxKeepsOnlySmaller(current, max_value) == current < max_value

\* the test of the scan: the running maximum stays unless the element is
\* strictly greater
argmaxKeeps(current, max_value) == ~(current > max_value)

\* the scan over data[i], i = 1 .. n-1, from max_value = data[0],
\* max_index = 0 (half precision elements are compared as floats; the
\* elements of the model are exact in every float type)
RECURSIVE argmaxScan(_, _, _, _, _)
argmaxScan(data, i, n, max_value, max_index) ==
    IF i >= n THEN <<max_index, max_value>>
    ELSE IF argmaxKeeps(data[i + 1], max_value)
         THEN argmaxScan(data, i + 1, n, max_value, max_index)
         ELSE argmaxScan(data, i + 1, n, data[i + 1], i)

\* a value stored through a pointer of type ptrType into a tensor of dtype
\* dtype: the value when the types agree, else its raw bits
storedAs(ptrType, dtype, value) ==
    IF ptrType = dtype THEN value ELSE <<"bits", ptrType, value>>

\* *ptr = value on the first element of an output
writeFirst(t, ptrType, value) ==
    IF Len(t.data) = 0 THEN t.data
    ELSE [t.data EXCEPT ![1] = storedAs(ptrType, t.dtype, value)]

\* a store of ptrType through data() of t runs past t's storage
writePastEnd(t, ptrType) == dsize(ptrType) > Len(t.data) * dsize(t.dtype)

\* argmax dereferences data() of all three tensors on the host, whatever
\* their device, and stores a vals-typed value and an int64 index
argmaxUndefined(max_idx, max_val, vals) ==
    \/ vals.kind # "CPU" \/ max_val.kind # "CPU" \/ max_idx.kind # "CPU"
    \/ writePastEnd(max_val, vals.dtype)
    \/ writePastEnd(max_idx, "I64")

argmax(max_idx, max_val, vals) ==
    /\ LET args == [max_idx |-> max_idx, max_val |-> max_val, vals |-> vals]
           err  == argmaxError(vals)
           r    == argmaxScan(vals.data, 1, numel(vals), vals.data[1], 0)
       IN kernel' =
            IF err # "" THEN Failed("argmax", args, err, {"max_idx", "max_val"})
            ELSE KernelCall("argmax", args, "",
                            [max_idx |-> writeFirst(max_idx, "I64", r[1]),
                             max_val |-> writeFirst(max_val, vals.dtype, r[2])],
                            {"max_idx", "max_val", "vals"},
                            argmaxUndefined(max_idx, max_val, vals), <<>>)
    /\ UNCHANGED tensorVars

(* ------------------------------- swiglu -------------------------------- *)
swigluError(out, gate, up) ==
    IF ~sameDevice(<<out, gate, up>>) THEN "device mismatch"
    ELSE IF ~(isContiguous(out) /\ isContiguous(gate) /\ isContiguous(up))
         THEN "SwiGLU: tensors must be contiguous"
    ELSE IF ~(ndim(out) = 2 /\ ndim(gate) = 2 /\ ndim(up) = 2)
         THEN "SwiGLU: tensors must be 2-D"
    ELSE IF ~(out.shape = gate.shape /\ out.shape = up.shape)
         THEN "SwiGLU: shape mismatch"
    ELSE IF out.dtype # gate.dtype \/ out.dtype # up.dtype THEN "dtype mismatch"
    ELSE IF out.kind # "CPU" THEN "unsupported device"
    ELSE IF out.dtype \notin FloatTypes THEN "unsupported data type"
    ELSE ""

\* out[i] = up[i] * (g / (1 + exp(-g))), kept as the term it is computed from
\* the memory the three data pointers address: one buffer per tensor; out
\* addresses the buffer outIs, its own or, when the caller passes the same
\* tensor twice, that of gate or of up
swigluMemory(out, gate, up) ==
    [out |-> out.data, gate |-> gate.data, up |-> up.data]

\* faulty variant of swigluStep: out[i] is cleared before gate[i] and up[i]
\* are read
swigluStepClearsFirst(mem, outIs, i) ==
    LET cleared == [mem EXCEPT ![outIs][i + 1] = 0]
    IN [cleared EXCEPT ![outIs][i + 1] =
           <<"swiglu", cleared.gate[i + 1], cleared.up[i + 1]>>]

\* one round of the loop: g = gate[i]; swish = g / (1 + exp(-g));
\* out[i] = up[i] * swish, the product kept as the term <<"swiglu", g, up[i]>>
swigluStep(mem, outIs, i) ==
    [mem EXCEPT ![outIs][i + 1] = <<"swiglu", mem.gate[i + 1], mem.up[i + 1]>>]

\* the loop for (i = 0; i < numel; ++i)
RECURSIVE swigluLoop(_, _, _, _)
swigluLoop(mem, outIs, i, n) ==
    IF i >= n THEN mem
    ELSE swigluLoop(swigluStep(mem, outIs, i), outIs, i + 1, n)

\* the contents of out after the loop, out a tensor of its own
swigluOut(out, gate, up) ==
    swigluLoop(swigluMemory(out, gate, up), "out", 0, numel(out)).out

swiglu(out, gate, up) ==
    /\ LET args == [out |-> out, gate |-> gate, up |-> up]
           err  == swigluError(out, gate, up)
       IN kernel' =
            IF err # "" THEN Failed("swiglu", args, err, {"out"})
            ELSE KernelCall("swiglu", args, "", [out |-> swigluOut(out, gate, up)],
                            {"out", "gate", "up"}, FALSE, <<>>)
    /\ UNCHANGED tensorVars

\* swiglu(gate, gate, up) or swiglu(up, gate, up): out is the tensor outIs,
\* so the loop writes the buffer it reads; the call record keeps the contents
\* of gate and up afterwards
swigluInPlace(gate, up, outIs) ==
    /\ LET out  == IF outIs = "gate" THEN gate ELSE up
           args == [out |-> out, gate |-> gate, up |-> up, outIs |-> outIs]
           err  == swigluError(out, gate, up)
           mem  == swigluLoop(swigluMemory(out, gate, up), outIs, 0, numel(out))
       IN kernel' =
            IF err # "" THEN Failed("swiglu", args, err, {"out"})
            ELSE KernelCall("swiglu", args, "",
                            [out |-> mem[outIs], gate |-> mem.gate, up |-> mem.up],
                            {"out", "gate", "up"}, FALSE, <<>>)
    /\ UNCHANGED tensorVars

(* ------------------------------ rms_norm ------------------------------- *)
rms_normError(out, in, weight) ==
    IF ~sameDevice(<<out, in, weight>>) THEN "device mismatch"
    ELSE IF ~(isContiguous(out) /\ isContiguous(in) /\ isContiguous(weight))
         THEN "RMSNorm: all tensors must be contiguous"
    ELSE IF ndim(out) # 2 THEN "RMSNorm: output must be 2-D tensor"
    ELSE IF ndim(in) # 2 THEN "RMSNorm: input must be 2-D tensor"
    ELSE IF ndim(weight) # 1 THEN "RMSNorm: weight must be 1-D tensor"
    ELSE IF ~(out.shape[1] = in.shape[1] /\ out.shape[2] = in.shape[2])
         THEN "RMSNorm: output shape must match input shape"
    ELSE IF weight.shape[1] # in.shape[2]
         THEN "RMSNorm: weight size must match hidden size"
    ELSE IF out.dtype # in.dtype \/ out.dtype # weight.dtype THEN "dtype mismatch"
    ELSE IF out.kind # "CPU" THEN "unsupported device"
    ELSE IF out.dtype \notin FloatTypes THEN "unsupported data type"
    ELSE ""

\* faulty variant of sum_sq: the elements are summed, not their squares
RECURSIVE sum_sqOfValues(_, _, _, _)
sum_sqOfValues(in_row, i, hidden_size, acc) ==
    IF i >= hidden_size THEN acc
    ELSE sum_sqOfValues(in_row, i + 1, hidden_size, acc + in_row[i + 1])

\* the loop sum_sq += val * val over i = 0 .. hidden_size - 1
RECURSIVE sum_sq(_, _, _, _)
sum_sq(in_row, i, hidden_size, acc) ==
    IF i >= hidden_size THEN acc
    ELSE sum_sq(in_row, i + 1, hidden_size, acc + in_row[i + 1] * in_row[i + 1])

\* out[b,i] = weight[i] * in[b,i] * (1 / sqrtf(sum_sq / hidden_size + eps)),
\* kept as the operands of that expression (the square root has no exact
\* value in the integers): <<weight[i] * in[b,i], sum_sq, hidden_size, eps>>
rms_normOut(out, in, weight, eps) ==
    LET hidden_size == in.shape[2]
    IN [p \in 1..Len(out.data) |->
          IF p <= numel(in)
          THEN LET b == (p - 1) \div hidden_size
                   i == (p - 1) % hidden_size
               IN <<"rms_norm", weight.data[i + 1] * in.data[p],
                    sum_sq(SubSeq(in.data, b * hidden_size + 1,
                                  (b + 1) * hidden_size), 0, hidden_size, 0),
                    hidden_size, eps>>
          ELSE out.data[p]]

rms_norm(out, in, weight, eps) ==
    /\ LET args == [out |-> out, in |-> in, weight |-> weight, eps |-> eps]
           err  == rms_normError(out, in, weight)
       IN kernel' =
            IF err # "" THEN Failed("rms_norm", args, err, {"out"})
            ELSE KernelCall("rms_norm", args, "",
                            [out |-> rms_normOut(out, in, weight, eps)],
                            {"out", "in", "weight"}, FALSE, <<>>)
    /\ UNCHANGED tensorVars

(* ------------------------------- linear -------------------------------- *)
\* the bias argument when the caller passes none
NoBias == [dtype |-> "none", shape |-> <<>>, strides |-> <<>>, offset |-> 0,
           kind |-> "none", id |-> 0, data |-> <<>>]

linearError(out, in, weight, bias) ==
    IF ~sameDevice(<<out, in, weight>>) THEN "device mismatch"
    ELSE IF bias # NoBias /\ ~sameDevice(<<out, bias>>) THEN "device mismatch"
    ELSE IF ~(isContiguous(out) /\ isContiguous(in) /\ isContiguous(weight))
         THEN "Linear: all tensors must be contiguous"
    ELSE IF bias # NoBias /\ ~isContiguous(bias) THEN "Linear: bias must be contiguous"
    ELSE IF ndim(out) # 2 THEN "Linear: output must be 2-D tensor"
    ELSE IF ndim(in) # 2 THEN "Linear: input must be 2-D tensor"
    ELSE IF ndim(weight) # 2 THEN "Linear: weight must be 2-D tensor"
    ELSE IF bias # NoBias /\ ndim(bias) # 1 THEN "Linear: bias must be 1-D tensor"
    ELSE IF out.shape[1] # in.shape[1]
         THEN "Linear: output batch size must match input batch size"
    ELSE IF in.shape[2] # weight.shape[2]
         THEN "Linear: input features must match weight input features"
    ELSE IF out.shape[2] # weight.shape[1]
         THEN "Linear: output features must match weight output features"
    ELSE IF bias # NoBias /\ numel(bias) # out.shape[2]
         THEN "Linear: bias size must match output features"
    ELSE IF out.dtype # in.dtype \/ out.dtype # weight.dtype THEN "dtype mismatch"
    ELSE IF bias # NoBias /\ out.dtype # bias.dtype THEN "dtype mismatch"
    ELSE IF out.kind # "CPU" THEN "unsupported device"
    ELSE IF out.dtype \notin FloatTypes THEN "unsupported data type"
    ELSE ""

\* faulty variant of dot_product_optimized: the remainder loop is missing
RECURSIVE dot_productUnrolledOnly(_, _, _, _, _, _, _)
dot_productUnrolledOnly(a, aoff, b, boff, n, i, sum) ==
    IF i + 3 < n
    THEN dot_productUnrolledOnly(a, aoff, b, boff, n, i + 4,
             sum + a[aoff + i + 1] * b[boff + i + 1]
                 + a[aoff + i + 2] * b[boff + i + 2]
                 + a[aoff + i + 3] * b[boff + i + 3]
                 + a[aoff + i + 4] * b[boff + i + 4])
    ELSE sum

\* dot_product_optimized on a[aoff ..] and b[boff ..]: four products per
\* round while i + 3 < n, then the remaining ones singly
RECURSIVE dot_product_optimized(_, _, _, _, _, _, _)
dot_product_optimized(a, aoff, b, boff, n, i, sum) ==
    IF i + 3 < n
    THEN dot_product_optimized(a, aoff, b, boff, n, i + 4,
             sum + a[aoff + i + 1] * b[boff + i + 1]
                 + a[aoff + i + 2] * b[boff + i + 2]
                 + a[aoff + i + 3] * b[boff + i + 3]
                 + a[aoff + i + 4] * b[boff + i + 4])
    ELSE IF i < n
    THEN dot_product_optimized(a, aoff, b, boff, n, i + 1,
             sum + a[aoff + i + 1] * b[boff + i + 1])
    ELSE sum

\* out[b,o] = bias[o] (or 0) + the dot product of row b of in and row o of
\* weight
linearOut(out, in, weight, bias) ==
    LET in_features  == in.shape[2]
        out_features == out.shape[2]
    IN [p \in 1..Len(out.data) |->
          IF p <= numel(out)
          THEN LET b == (p - 1) \div out_features
                   o == (p - 1) % out_features
               IN (IF bias # NoBias THEN bias.data[o + 1] ELSE 0)
                  + dot_product_optimized(in.data, b * in_features,
                                          weight.data, o * in_features,
                                          in_features, 0, 0)
          ELSE out.data[p]]

linear(out, in, weight, bias) ==
    /\ LET args == [out |-> out, in |-> in, weight |-> weight, bias |-> bias]
           err  == linearError(out, in, weight, bias)
       IN kernel' =
            IF err # "" THEN Failed("linear", args, err, {"out"})
            ELSE KernelCall("linear", args, "",
                            [out |-> linearOut(out, in, weight, bias)],
                            {"out", "in", "weight"}
                                \cup (IF bias # NoBias THEN {"bias"} ELSE {}),
                            FALSE, <<>>)
    /\ UNCHANGED tensorVars

(* -------------------------------- rope --------------------------------- *)
ropeError(out, in, pos_ids) ==
    IF ~sameDevice(<<out, in, pos_ids>>) THEN "device mismatch"
    ELSE IF ~(isContiguous(out) /\ isContiguous(in) /\ isContiguous(pos_ids))
         THEN "RoPE: all tensors must be contiguous"
    ELSE IF ndim(out) # 3 THEN "RoPE: output must be 3-D tensor"
    ELSE IF ndim(in) # 3 THEN "RoPE: input must be 3-D tensor"
    ELSE IF ndim(pos_ids) # 1 THEN "RoPE: pos_ids must be 1-D tensor"
    ELSE IF pos_ids.dtype # "I64" THEN "RoPE: pos_ids must be int64 type"
    ELSE IF out.shape # in.shape THEN "RoPE: output shape must match input shape"
    ELSE IF numel(pos_ids) # in.shape[1]
         THEN "RoPE: pos_ids length must match sequence length"
    ELSE IF in.shape[3] % 2 # 0 THEN "RoPE: dimension d must be even"
    ELSE IF out.dtype # in.dtype THEN "dtype mismatch"
    ELSE IF out.kind # "CPU" THEN "unsupported device"
    ELSE IF out.dtype \notin FloatTypes THEN "unsupported data type"
    ELSE ""

\* float values the model cannot hold as integers are kept tagged:
\* <<"val", n>> is the number n, <<"nan">> is NaN, every other tuple is the
\* expression a finite value was computed by
Val(n) == <<"val", n>>

NaN == <<"nan">>

\* theta_pow[i] = powf(theta, 2.0f * i / d), where 0 <= 2i/d < 1:
\* powf(x, 0) is 1 for every x, powf(0, y) is 0 and powf(x, y) is NaN for
\* x < 0 when 0 < y < 1
theta_pow(theta, i, d) ==
    IF i = 0 THEN Val(1)
    ELSE IF theta = 0 THEN Val(0)
    ELSE IF theta < 0 THEN NaN
    ELSE IF theta = 1 THEN Val(1)
    ELSE <<"pow", theta, 2 * i, d>>

\* freq = position / theta_pow[i]: 0 / 0 is NaN, x / 0 is infinite
ropeFreq(position, tp) ==
    IF tp = NaN THEN NaN
    ELSE IF tp = Val(0)
         THEN (IF position = 0 THEN NaN ELSE <<"inf", position>>)
    ELSE IF position = 0 THEN Val(0)
    ELSE IF tp = Val(1) THEN Val(position)
    ELSE <<"div", position, tp>>

\* sinf and cosf: exact at 0, NaN at NaN and at infinity
ropeSin(freq) ==
    IF freq = Val(0) THEN Val(0)
    ELSE IF freq = NaN \/ freq[1] = "inf" THEN NaN
    ELSE <<"sin", freq>>

ropeCos(freq) ==
    IF freq = Val(0) THEN Val(1)
    ELSE IF freq = NaN \/ freq[1] = "inf" THEN NaN
    ELSE <<"cos", freq>>

\* x * cos -+ y * sin for finite x and y: x itself when cos = 1 and sin = 0
ropeRotate(half, x, y, sin, cos) ==
    IF sin = NaN \/ cos = NaN THEN NaN
    ELSE IF sin = Val(0) /\ cos = Val(1) THEN Val(x)
    ELSE <<half, x, y, sin, cos>>

\* faulty variant of ropeFirstHalf: the pairs are (2i, 2i+1), the
\* interleaved layout
ropeFirstHalfInterleaved(head, d, i) == head * d + 2 * i

\* x_a = in_head: element i of the first half of a head
ropeFirstHalf(head, d, i) == head * d + i

\* x_b = in_head + d_half: element i of the second half
ropeSecondHalf(head, d, i) == head * d + (d \div 2) + i

\* y_a[i] = x_a[i] * cos - x_b[i] * sin, y_b[i] = x_b[i] * cos + x_a[i] * sin
\* with freq = pos_ids[pos] / theta_pow[i]
ropeOut(out, in, pos_ids, theta) ==
    LET n_heads == in.shape[2]
        d       == in.shape[3]
        d_half  == d \div 2
    IN [p \in 1..Len(out.data) |->
          IF p <= numel(in)
          THEN LET head == (p - 1) \div d
                   j    == (p - 1) % d
                   pos  == head \div n_heads
                   i    == j % d_half
                   x_a  == in.data[ropeFirstHalf(head, d, i) + 1]
                   x_b  == in.data[ropeSecondHalf(head, d, i) + 1]
                   freq == ropeFreq(pos_ids.data[pos + 1], theta_pow(theta, i, d))
               IN IF j < d_half
                  THEN ropeRotate("y_a", x_a, x_b, ropeSin(freq), ropeCos(freq))
                  ELSE ropeRotate("y_b", x_b, x_a, ropeSin(freq), ropeCos(freq))
          ELSE out.data[p]]

rope(out, in, pos_ids, theta) ==
    /\ LET args == [out |-> out, in |-> in, pos_ids |-> pos_ids, theta |-> theta]
           err  == ropeError(out, in, pos_ids)
       IN kernel' =
            IF err # "" THEN Failed("rope", args, err, {"out"})
            ELSE KernelCall("rope", args, "", [out |-> ropeOut(out, in, pos_ids, theta)],
                            {"out", "in", "pos_ids"}, FALSE, <<>>)
    /\ UNCHANGED tensorVars

(* --------------------------- self_attention ---------------------------- *)
self_attentionError(attn_val, q, k, v) ==
    IF ~sameDevice(<<attn_val, q, k, v>>) THEN "device mismatch"
    ELSE IF ~(isContiguous(attn_val) /\ isContiguous(q)
              /\ isContiguous(k) /\ isContiguous(v))
         THEN "SelfAttention: all tensors must be contiguous"
    ELSE IF ndim(attn_val) # 3 THEN "SelfAttention: attn_val must be 3-D tensor"
    ELSE IF ndim(q) # 3 THEN "SelfAttention: q must be 3-D tensor"
    ELSE IF ndim(k) # 3 THEN "SelfAttention: k must be 3-D tensor"
    ELSE IF ndim(v) # 3 THEN "SelfAttention: v must be 3-D tensor"
    ELSE IF ~(attn_val.shape[1] = q.shape[1] /\ attn_val.shape[2] = q.shape[2]
              /\ attn_val.shape[3] = v.shape[3])
         THEN "SelfAttention: attn_val shape mismatch"
    ELSE IF ~(v.shape[1] = k.shape[1] /\ v.shape[2] = k.shape[2])
         THEN "SelfAttention: v shape mismatch with k"
    ELSE IF q.shape[3] # k.shape[3]
         THEN "SelfAttention: q and k must have same last dimension"
    ELSE IF q.shape[2] % k.shape[2] # 0
         THEN "SelfAttention: n_q_head must be divisible by n_kv_head"
    ELSE IF attn_val.dtype # q.dtype \/ attn_val.dtype # k.dtype
            \/ attn_val.dtype # v.dtype
         THEN "dtype mismatch"
    ELSE IF attn_val.kind # "CPU" THEN "unsupported device"
    ELSE IF attn_val.dtype \notin FloatTypes THEN "unsupported data type"
    ELSE ""

\* size_t arithmetic wraps around; the model keeps the wrap-around in a
\* 16-bit word, wider than every size it handles
SizeWrap(x) == x % (2 ^ 16)

Min2(a, b) == IF a < b THEN a ELSE b

RECURSIVE SeqSum(_)
SeqSum(s) == IF s = <<>> THEN 0 ELSE Head(s) + SeqSum(Tail(s))

RECURSIVE SeqMax(_)
SeqMax(s) == IF Len(s) = 1 THEN s[1]
             ELSE LET m == SeqMax(Tail(s)) IN IF s[1] > m THEN s[1] ELSE m

\* size_t kv_offset = total_len - seq_len
kv_offset(total_len, seq_len) == SizeWrap(total_len - seq_len)

\* faulty variant of context_len: the query's own position is left out
context_lenExclusive(q_pos, kvoff, total_len) ==
    Min2(SizeWrap(q_pos + kvoff), total_len)

\* std::min(q_pos + kv_offset + 1, total_len)
context_len(q_pos, kvoff, total_len) ==
    Min2(SizeWrap(q_pos + kvoff + 1), total_len)

\* faulty variant of kv_headOf: every query head reads key/value head 0
kv_headZero(q_head, group_size) == 0

\* size_t kv_head = q_head / group_size
kv_headOf(q_head, group_size) == q_head \div group_size

\* exp(x) for the arguments the softmax passes, x = score - max_score in
\* -ExpRange .. 0, in units of 2^-ExpRange and to the base 2 (the base e has
\* no exact integer form; exp(0) = 1 is exact, and exp is increasing)
ExpRange == MaxScale * MaxDim

expUnits(x) == 2 ^ (ExpRange + x)

\* the dimensions self_attention reads off its arguments
seq_len(q)   == q.shape[1]
n_q_head(q)  == q.shape[2]
total_len(k) == k.shape[1]
n_kv_head(k) == k.shape[2]

\* the key positions visited for the query at q_pos: 0 .. context_len - 1
contextOf(q, k, q_pos) ==
    context_len(q_pos, kv_offset(total_len(k), seq_len(q)), total_len(k))

\* scores[k_pos] = scale * <q_vec, k_vec> for k_pos < context_len
attnScores(q, k, scale, q_pos, q_head) ==
    LET d        == q.shape[3]
        kv_head  == kv_headOf(q_head, n_q_head(q) \div n_kv_head(k))
        q_offset == (q_pos * n_q_head(q) + q_head) * d
    IN [k_pos1 \in 1..contextOf(q, k, q_pos) |->
          scale * SeqSum([i \in 1..d |->
                     q.data[q_offset + i]
                     * k.data[((k_pos1 - 1) * n_kv_head(k) + kv_head) * d + i]])]

\* the softmax numerators exp(scores[i] - max_score)
attnExp(scores) ==
    [i \in 1..Len(scores) |-> expUnits(scores[i] - SeqMax(scores))]

\* one output row: out_vec[i] = sum over k_pos of (exp * inv_sum) * v_vec[i],
\* as the ratio <<sum of exp * v, sum_exp>>; all zero when sum_exp is 0
attnRow(q, k, v, scale, q_pos, q_head) ==
    LET dv      == v.shape[3]
        kv_head == kv_headOf(q_head, n_q_head(q) \div n_kv_head(k))
        e       == attnExp(attnScores(q, k, scale, q_pos, q_head))
        sum_exp == SeqSum(e)
    IN [i \in 1..dv |->
          IF sum_exp > 0
          THEN <<SeqSum([k_pos1 \in 1..Len(e) |->
                    e[k_pos1]
                    * v.data[((k_pos1 - 1) * n_kv_head(k) + kv_head) * dv + i]]),
                 sum_exp>>
          ELSE <<0, 1>>]

\* the contents of attn_val after the loops over q_head and q_pos
self_attentionOut(attn_val, q, k, v, scale) ==
    LET dv == v.shape[3]
    IN [p \in 1..Len(attn_val.data) |->
          IF p <= numel(attn_val)
          THEN LET cell == (p - 1) \div dv
               IN attnRow(q, k, v, scale, cell \div n_q_head(q),
                          cell % n_q_head(q))[((p - 1) % dv) + 1]
          ELSE attn_val.data[p]]

\* the <<k_pos, kv_head>> the loops visit for each <<q_pos, q_head>>
self_attentionVisits(q, k) ==
    [c \in (0..seq_len(q) - 1) \X (0..n_q_head(q) - 1) |->
        {<<k_pos, kv_headOf(c[2], n_q_head(q) \div n_kv_head(k))>> :
            k_pos \in 0..contextOf(q, k, c[1]) - 1}]

self_attention(attn_val, q, k, v, scale) ==
    /\ LET args == [attn_val |-> attn_val, q |-> q, k |-> k, v |-> v, scale |-> scale]
           err  == self_attentionError(attn_val, q, k, v)
       IN kernel' =
            IF err # "" THEN Failed("self_attention", args, err, {"attn_val"})
            ELSE KernelCall("self_attention", args, "",
                            [attn_val |-> self_attentionOut(attn_val, q, k, v, scale)],
                            {"attn_val", "q", "k", "v"}, FALSE,
                            self_attentionVisits(q, k))
    /\ UNCHANGED tensorVars

(* ------------------------ kernel specification ------------------------- *)
\* the dtypes the callers use: two float types and the index type
OpTypes == {"F32", "F16", "I64"}

\* the elements of enumerated contents
AttnValues == 0..1

\* an argument as create gives it, on the CPU, with the given contents; a
\* departing argument with more elements repeats the contents given
Plain(dtype, shape, data) == MakeArg("plain", "CPU", dtype, shape, data)

\* every combination of departures of n arguments
Traits3 == Traits \X Traits \X Traits
Traits4 == Traits \X Traits \X Traits \X Traits

\* embedding: every index vector over -1 .. MaxLen against well-formed
\* arguments
embeddingValues ==
    /\ Idle
    /\ \E N \in 1..MaxLen, V \in 1..MaxLen, E \in 1..MaxDim, dtype \in {"F32", "F16"} :
       \E idx \in [1..N -> -1..MaxLen] :
           embedding(Plain(dtype, <<N, E>>, Stale(N * E)),
                     Plain("I64", <<N>>, idx),
                     Plain(dtype, <<V, E>>, Ramp(V * E)))

\* embedding: every combination of departures on the largest shapes
embeddingDepartures ==
    /\ Idle
    /\ \E tr \in Traits3, dev \in Kinds, dtype \in OpTypes :
           embedding(MakeArg(tr[1], dev, dtype, <<MaxLen, MaxDim>>, Stale(MaxLen * MaxDim)),
                     MakeArg(tr[2], dev, "I64", <<MaxLen>>, Ramp(MaxLen)),
                     MakeArg(tr[3], dev, dtype, <<MaxLen, MaxDim>>, Ramp(MaxLen * MaxDim)))

\* embedding: index [0, 2, -1, 1] over weight [[1,1],[2,2],[3,3]]
embeddingScenario ==
    /\ Idle
    /\ embedding(Plain("F32", <<4, 2>>, Stale(8)),
                 Plain("I64", <<4>>, <<0, 2, -1, 1>>),
                 Plain("F32", <<3, 2>>, <<1, 1, 2, 2, 3, 3>>))

\* argmax: every vals of up to MaxLen + 1 elements over 0 .. MaxLen, empty
\* included, in every dtype
argmaxValues ==
    /\ Idle
    /\ \E n \in 0..MaxLen + 1, dtype \in {"F32", "F16", "I32", "I64", "I8"} :
       \E data \in [1..n -> 0..MaxLen] :
           argmax(Plain("I64", <<1>>, Stale(1)),
                  Plain(dtype, <<1>>, Stale(1)),
                  Plain(dtype, <<n>>, data))

\* argmax: every combination of departures, on a 2-D vals
argmaxDepartures ==
    /\ Idle
    /\ \E tr \in Traits3, dev \in Kinds :
           argmax(MakeArg(tr[1], dev, "I64", <<1>>, Stale(1)),
                  MakeArg(tr[2], dev, "F32", <<1>>, Stale(1)),
                  MakeArg(tr[3], dev, "F32", <<MaxLen, MaxDim>>, Ramp(MaxLen * MaxDim)))

\* argmax: vals [3, 1, 4, 1, 5, 9, 2, 6]
argmaxScenario ==
    /\ Idle
    /\ argmax(Plain("I64", <<1>>, Stale(1)),
              Plain("I32", <<1>>, Stale(1)),
              Plain("I32", <<8>>, <<3, 1, 4, 1, 5, 9, 2, 6>>))

swigluDepartures ==
    /\ Idle
    /\ \E tr \in Traits3, dev \in Kinds, dtype \in OpTypes :
           swiglu(MakeArg(tr[1], dev, dtype, <<MaxLen, MaxDim>>, Stale(MaxLen * MaxDim)),
                  MakeArg(tr[2], dev, dtype, <<MaxLen, MaxDim>>, Ramp(MaxLen * MaxDim)),
                  MakeArg(tr[3], dev, dtype, <<MaxLen, MaxDim>>, Ramp(MaxLen * MaxDim)))

rms_normDepartures ==
    /\ Idle
    /\ \E tr \in Traits3, dev \in Kinds, dtype \in OpTypes, eps \in {0} :
           rms_norm(MakeArg(tr[1], dev, dtype, <<MaxLen, MaxDim>>, Stale(MaxLen * MaxDim)),
                    MakeArg(tr[2], dev, dtype, <<MaxLen, MaxDim>>, Ramp(MaxLen * MaxDim)),
                    MakeArg(tr[3], dev, dtype, <<MaxDim>>, Ramp(MaxDim)),
                    eps)

ropeDepartures ==
    /\ Idle
    /\ \E tr \in Traits3, dev \in Kinds, dtype \in OpTypes, D \in 1..MaxDim,
          theta \in {10000} :
           rope(MakeArg(tr[1], dev, dtype, <<MaxLen, MaxHeads, D>>,
                        Stale(MaxLen * MaxHeads * D)),
                MakeArg(tr[2], dev, dtype, <<MaxLen, MaxHeads, D>>,
                        Ramp(MaxLen * MaxHeads * D)),
                MakeArg(tr[3], dev, "I64", <<MaxLen>>, [i \in 1..MaxLen |-> i - 1]),
                theta)

\* linear: every combination of departures, with and without bias
linearDepartures ==
    /\ Idle
    /\ \E tr \in Traits3, tb \in Traits \cup {"none"}, dev \in Kinds, dtype \in OpTypes :
           linear(MakeArg(tr[1], dev, dtype, <<MaxLen, MaxDim>>, Stale(MaxLen * MaxDim)),
                  MakeArg(tr[2], dev, dtype, <<MaxLen, MaxDim>>, Ramp(MaxLen * MaxDim)),
                  MakeArg(tr[3], dev, dtype, <<MaxDim, MaxDim>>, Ramp(MaxDim * MaxDim)),
                  IF tb = "none" THEN NoBias
                  ELSE MakeArg(tb, dev, dtype, <<MaxDim>>, Ramp(MaxDim)))

\* the dimensions <<S, T, Hq, Hkv, D, Dv>> whose tensors have at most MaxData
\* elements; T < S and Hq not a multiple of Hkv are among them
\* the theta values: a negative one, zero, one, and the customary base
Thetas == {-1, 0, 1, 10000}

ropeValues ==
    /\ Idle
    /\ \E S \in 1..MaxLen, H \in 1..MaxHeads, D \in 1..MaxRopeDim,
          theta \in Thetas, dtype \in {"F32", "F16"} :
       \E pd \in [1..S -> 0..1] :
           rope(Plain(dtype, <<S, H, D>>, Stale(S * H * D)),
                Plain(dtype, <<S, H, D>>, Ramp(S * H * D)),
                Plain("I64", <<S>>, pd),
                theta)

swigluValues ==
    /\ Idle
    /\ \E B \in 1..MaxLen, H \in 1..MaxDim, dtype \in {"F32", "F16"} :
       \E gd \in [1..B * H -> -1..1], ud \in [1..B * H -> -1..1] :
           swiglu(Plain(dtype, <<B, H>>, Stale(B * H)),
                  Plain(dtype, <<B, H>>, gd),
                  Plain(dtype, <<B, H>>, ud))

swigluAliased ==
    /\ Idle
    /\ \E B \in 1..MaxLen, H \in 1..MaxDim, dtype \in {"F32", "F16"},
          outIs \in {"gate", "up"} :
       \E gd \in [1..B * H -> -1..1], ud \in [1..B * H -> -1..1] :
           swigluInPlace(Plain(dtype, <<B, H>>, gd),
                         Plain(dtype, <<B, H>>, ud),
                         outIs)

rms_normValues ==
    /\ Idle
    /\ \E B \in 1..MaxLen, H \in 1..MaxDim, eps \in 0..MaxEps :
       \E id \in [1..B * H -> -1..2], wd \in [1..H -> -1..1] :
           rms_norm(Plain("F32", <<B, H>>, Stale(B * H)),
                    Plain("F32", <<B, H>>, id),
                    Plain("F32", <<H>>, wd),
                    eps)

\* rows of in whose element i is (row + 1) * 3^i: sums over different
\* multisets of indices differ
Powers(B, I) == [p \in 1..B * I |-> (((p - 1) \div I) + 1) * 3 ^ ((p - 1) % I)]

linearValues ==
    /\ Idle
    /\ \E B \in 1..MaxLen, O \in 1..MaxLen, I \in 1..MaxFeatures,
          dtype \in {"F32", "BF16"}, biased \in BOOLEAN :
       \E wd \in [1..O * I -> 0..1] :
           linear(Plain(dtype, <<B, O>>, Stale(B * O)),
                  Plain(dtype, <<B, I>>, Powers(B, I)),
                  Plain(dtype, <<O, I>>, wd),
                  IF biased THEN Plain(dtype, <<O>>, Ramp(O)) ELSE NoBias)

\* linear(in=[[1,2]], weight=[[1,0],[0,1],[1,1]], bias=None)
linearScenario ==
    /\ Idle
    /\ linear(Plain("F32", <<1, 3>>, Stale(3)),
              Plain("F32", <<1, 2>>, <<1, 2>>),
              Plain("F32", <<3, 2>>, <<1, 0, 0, 1, 1, 1>>),
              NoBias)

AttentionDims ==
    {d \in (1..MaxLen) \X (1..MaxLen) \X (1..MaxHeads) \X (1..MaxHeads)
           \X (1..MaxDim) \X (1..MaxDim) :
        /\ d[1] * d[3] * d[5] <= MaxData
        /\ d[2] * d[4] * d[5] <= MaxData
        /\ d[2] * d[4] * d[6] <= MaxData
        /\ d[1] * d[3] * d[6] <= MaxData}

\* self_attention: every q, k, v over AttnValues and every scale
self_attentionValues ==
    /\ Idle
    /\ \E d \in AttentionDims, scale \in 0..MaxScale :
       \E qd \in [1..d[1] * d[3] * d[5] -> AttnValues],
          kd \in [1..d[2] * d[4] * d[5] -> AttnValues],
          vd \in [1..d[2] * d[4] * d[6] -> AttnValues] :
           self_attention(Plain("F32", <<d[1], d[3], d[6]>>, Stale(d[1] * d[3] * d[6])),
                          Plain("F32", <<d[1], d[3], d[5]>>, qd),
                          Plain("F32", <<d[2], d[4], d[5]>>, kd),
                          Plain("F32", <<d[2], d[4], d[6]>>, vd),
                          scale)

\* self_attention: every combination of departures on the largest shapes
self_attentionDepartures ==
    /\ Idle
    /\ \E tr \in Traits4, dev \in Kinds, dtype \in OpTypes :
           self_attention(
               MakeArg(tr[1], dev, dtype, <<MaxLen, MaxHeads, 1>>, Stale(MaxLen * MaxHeads)),
               MakeArg(tr[2], dev, dtype, <<MaxLen, MaxHeads, 1>>, Ones(MaxLen * MaxHeads)),
               MakeArg(tr[3], dev, dtype, <<MaxLen, MaxHeads, 1>>, Ones(MaxLen * MaxHeads)),
               MakeArg(tr[4], dev, dtype, <<MaxLen, MaxHeads, 1>>, Ones(MaxLen * MaxHeads)),
               1)

OpsInit ==
    /\ tensors = [i \in TensorIds |-> NoTensor]
    /\ storages = [s \in StorageIds |-> NoStorage]
    /\ curDevice = <<"CPU", 0>>
    /\ last = Call("init", TRUE, "", 0, 0, <<>>, "", 0, FALSE)
    /\ nops = 0
    /\ ncreate = 0
    /\ rt = Runtime(curDevice, <<>>)
    /\ kernel = NoKernel

OpsNext ==
    \/ embeddingValues
    \/ embeddingDepartures
    \/ embeddingScenario
    \/ argmaxValues
    \/ argmaxDepartures
    \/ argmaxScenario
    \/ swigluDepartures
    \/ swigluValues
    \/ swigluAliased
    \/ rms_normDepartures
    \/ rms_normValues
    \/ linearDepartures
    \/ linearValues
    \/ linearScenario
    \/ ropeDepartures
    \/ ropeValues
    \/ self_attentionValues
    \/ self_attentionDepartures

OpsSpec == OpsInit /\ [][OpsNext]_vars

(* ===================================================================== *)
(* Properties of the operator kernels                                     *)
(* ===================================================================== *)
Called == kernel.op # "none"

\* the arguments that are not tensors: the float parameters of the kernels
\* and the note of which tensor was passed as out
ScalarArgNames == {"scale", "eps", "theta", "outIs"}

\* the tensor arguments of the call: every argument but the scalars and an
\* absent bias
TensorArgNames ==
    {n \in DOMAIN kernel.a : n \notin ScalarArgNames /\ kernel.a[n] # NoBias}

\* the tensor arguments that are not index tensors, and the index tensors
IndexArgNames == {"index", "pos_ids", "max_idx"}

ValueArgNames == TensorArgNames \ IndexArgNames

\* the call computed nothing: no data pointer dereferenced, every output as
\* it was before the call
ComputedNothing ==
    /\ kernel.deref = {}
    /\ ~kernel.ub
    /\ \A n \in DOMAIN kernel.out : kernel.out[n] = kernel.a[n].data

SomeArgNonContiguous ==
    \E n \in TensorArgNames : ~isContiguous(kernel.a[n])

\* C14: every kernel, argmax included, fails when one of its tensor
\* arguments is non-contiguous, and computes nothing in that case
C14_NonContiguousRejected ==
    (Called /\ SomeArgNonContiguous) => (~kernel.ok /\ ComputedNothing)

\* the six kernels that check contiguity do reject a non-contiguous argument
\* and compute nothing
CheckedKernelsRejectNonContiguous ==
    (Called /\ kernel.op # "argmax" /\ SomeArgNonContiguous)
        => (~kernel.ok /\ ComputedNothing)

\* a kernel other than argmax was handed a non-contiguous argument that is
\* otherwise what the kernel expects
CheckedKernelsRejectNonContiguousWitness ==
    /\ Called /\ kernel.op # "argmax" /\ SomeArgNonContiguous
    /\ kernel.err \in {"Embedding: tensors must be contiguous for now",
                       "SwiGLU: tensors must be contiguous",
                       "RMSNorm: all tensors must be contiguous",
                       "Linear: all tensors must be contiguous",
                       "RoPE: all tensors must be contiguous",
                       "SelfAttention: all tensors must be contiguous"}

\* all tensor arguments of the call are on one device
ArgsOnOneDevice ==
    \A m \in TensorArgNames, n \in TensorArgNames :
        kernel.a[m].kind = kernel.a[n].kind /\ kernel.a[m].id = kernel.a[n].id

\* all non-index arguments, outputs included, have one dtype, and every
\* index argument is i64
ArgsOfOneDtype ==
    /\ \A m \in ValueArgNames, n \in ValueArgNames :
           kernel.a[m].dtype = kernel.a[n].dtype
    /\ \A n \in TensorArgNames \cap IndexArgNames : kernel.a[n].dtype = "I64"

\* C15: every kernel fails unless its tensor arguments are on the same
\* device, its non-index arguments have the same dtype and its index
\* arguments are i64
C15_DeviceAndDtypeChecked ==
    (Called /\ ~(ArgsOnOneDevice /\ ArgsOfOneDtype)) => ~kernel.ok

\* the six kernels that use CHECK_SAME_DEVICE and CHECK_SAME_DTYPE do fail
\* on such arguments
CheckedKernelsRejectDeviceAndDtype ==
    (Called /\ kernel.op # "argmax" /\ ~(ArgsOnOneDevice /\ ArgsOfOneDtype))
        => ~kernel.ok

\* a kernel other than argmax was stopped by its dtype check
CheckedKernelsRejectDtypeWitness ==
    /\ Called /\ kernel.op # "argmax"
    /\ ArgsOnOneDevice /\ ~ArgsOfOneDtype
    /\ kernel.err = "dtype mismatch"

\* a kernel other than argmax was stopped by its device check
CheckedKernelsRejectDeviceWitness ==
    /\ Called /\ kernel.op # "argmax"
    /\ ~ArgsOnOneDevice /\ ArgsOfOneDtype
    /\ kernel.err = "device mismatch"

\* argmax ran to completion although max_val is not of vals' dtype
ArgmaxAcceptsOtherDtype ==
    /\ kernel.op = "argmax" /\ kernel.ok
    /\ kernel.a.max_val.dtype # kernel.a.vals.dtype

\* every tensor argument of the call is on an accelerator
ArgsOffHost == \A n \in TensorArgNames : kernel.a[n].kind # "CPU"

\* the checks the kernel of the call applies to its arguments
errorOf(op, a) ==
    CASE op = "embedding"      -> embeddingError(a.out, a.index, a.weight)
      [] op = "argmax"         -> argmaxError(a.vals)
      [] op = "swiglu"         -> swigluError(a.out, a.gate, a.up)
      [] op = "rms_norm"       -> rms_normError(a.out, a.in, a.weight)
      [] op = "linear"         -> linearError(a.out, a.in, a.weight, a.bias)
      [] op = "rope"           -> ropeError(a.out, a.in, a.pos_ids)
      [] op = "self_attention" -> self_attentionError(a.attn_val, a.q, a.k, a.v)

\* the same arguments with their storage on the host
OnHost(a) ==
    [n \in DOMAIN a |->
        IF n \in ScalarArgNames \/ a[n] = NoBias THEN a[n]
        ELSE [a[n] EXCEPT !.kind = "CPU"]]

\* the arguments are ones the kernel accepts on the host
AcceptedOnHost == errorOf(kernel.op, OnHost(kernel.a)) = ""

\* C16: every kernel, argmax included, fails when its tensors are on a
\* non-CPU device, with the unsupported-device error when the arguments are
\* otherwise acceptable, and dereferences no data pointer
C16_OffHostRejected ==
    (Called /\ ArgsOffHost) =>
        /\ ~kernel.ok
        /\ kernel.deref = {}
        /\ ~kernel.ub
        /\ AcceptedOnHost => kernel.err = "unsupported device"

\* the six kernels with a device test do so
CheckedKernelsRejectOffHost ==
    (Called /\ kernel.op # "argmax" /\ ArgsOffHost) =>
        /\ ~kernel.ok
        /\ kernel.deref = {}
        /\ ~kernel.ub
        /\ AcceptedOnHost => kernel.err = "unsupported device"

\* a kernel other than argmax refused acceptable arguments for their device
CheckedKernelsRejectOffHostWitness ==
    /\ Called /\ kernel.op # "argmax" /\ ArgsOffHost /\ AcceptedOnHost
    /\ kernel.err = "unsupported device"

\* argmax ran on accelerator tensors and dereferenced their data pointers
ArgmaxDereferencesOffHost ==
    /\ kernel.op = "argmax" /\ ArgsOffHost
    /\ kernel.ok /\ kernel.deref # {} /\ kernel.ub

(* ------------------------------ embedding ------------------------------ *)
\* row b (from 0) of a contiguous 2-D tensor whose elements are data
RowOf(data, b, width) == [d \in 1..width |-> data[b * width + d]]

EmbeddingDone == kernel.op = "embedding" /\ kernel.ok

\* C17: after a successful embedding(out[N,E], index[N], weight[V,E]) every
\* row b of out is all zeros when index[b] is outside [0, V) and is row
\* index[b] of weight otherwise; weight and index are never written
C17_EmbeddingGathers ==
    EmbeddingDone =>
        LET index  == kernel.a.index
            weight == kernel.a.weight
            N      == index.shape[1]
            V      == weight.shape[1]
            E      == weight.shape[2]
        IN /\ Len(kernel.out.out) = N * E
           /\ \A b \in 0..N - 1 :
                LET idx == index.data[b + 1]
                IN IF idx < 0 \/ idx >= V
                   THEN RowOf(kernel.out.out, b, E) = [d \in 1..E |-> 0]
                   ELSE RowOf(kernel.out.out, b, E) = RowOf(weight.data, idx, E)
           /\ DOMAIN kernel.out = {"out"}

\* index [0,2,-1,1] over weight [[1,1],[2,2],[3,3]] gave
\* [[1,1],[3,3],[0,0],[2,2]]
C17_Witness ==
    /\ EmbeddingDone
    /\ kernel.a.index.data = <<0, 2, -1, 1>>
    /\ kernel.a.weight.data = <<1, 1, 2, 2, 3, 3>>
    /\ kernel.a.weight.shape = <<3, 2>>
    /\ kernel.out.out = <<1, 1, 3, 3, 0, 0, 2, 2>>

(* ------------------------------- argmax -------------------------------- *)
\* the arguments are as the signature of argmax describes them: on the host,
\* max_idx of dtype i64, max_val of the dtype of vals
ArgmaxTyped ==
    /\ kernel.op = "argmax"
    /\ \A n \in {"max_idx", "max_val", "vals"} : kernel.a[n].kind = "CPU"
    /\ kernel.a.max_idx.dtype = "I64"
    /\ kernel.a.max_val.dtype = kernel.a.vals.dtype

\* C18: on vals with numel >= 1 of a supported dtype argmax writes into
\* max_idx the smallest index of a maximal element (so ties go to the
\* earliest index) and into max_val that element; vals with numel 0 is
\* rejected
C18_ArgmaxFirstMaximum ==
    ArgmaxTyped =>
        LET vals == kernel.a.vals
            n    == numel(vals)
        IN /\ n = 0 => (~kernel.ok /\ ComputedNothing)
           /\ (n >= 1 /\ vals.dtype \in ArgmaxTypes) =>
                /\ kernel.ok
                /\ ~kernel.ub
                /\ LET i == kernel.out.max_idx[1]
                   IN /\ i \in 0..n - 1
                      /\ \A j \in 0..n - 1 : vals.data[i + 1] >= vals.data[j + 1]
                      /\ \A j \in 0..i - 1 : vals.data[j + 1] < vals.data[i + 1]
                      /\ kernel.out.max_val[1] = vals.data[i + 1]

\* vals = [3,1,4,1,5,9,2,6] gave index 5 and value 9
C18_Witness ==
    /\ ArgmaxTyped /\ kernel.ok
    /\ kernel.a.vals.data = <<3, 1, 4, 1, 5, 9, 2, 6>>
    /\ kernel.out.max_idx = <<5>>
    /\ kernel.out.max_val = <<9>>

\* a constant sequence gave index 0
ArgmaxConstantWitness ==
    /\ ArgmaxTyped /\ kernel.ok
    /\ kernel.a.vals.data = <<2, 2, 2>>
    /\ kernel.out.max_idx = <<0>>

\* a strictly increasing sequence of length 3 gave index 2
ArgmaxIncreasingWitness ==
    /\ ArgmaxTyped /\ kernel.ok
    /\ kernel.a.vals.data = <<0, 1, 2>>
    /\ kernel.out.max_idx = <<2>> /\ kernel.out.max_val = <<2>>

\* an empty vals was rejected
ArgmaxEmptyWitness ==
    /\ ArgmaxTyped /\ numel(kernel.a.vals) = 0 /\ ~kernel.ok

(* --------------------------- self_attention ---------------------------- *)
AttentionDone == kernel.op = "self_attention" /\ kernel.ok

\* the key/value cache is at least as long as the query: T >= S
WithinCache == total_len(kernel.a.k) >= seq_len(kernel.a.q)

\* a contiguous 3-D tensor [len, heads, width] with every element zeroed
\* whose <<position, head>> is not in rows
KeepRows(t, rows) ==
    [t EXCEPT !.data =
        [p \in 1..Len(t.data) |->
            LET cell == (p - 1) \div t.shape[3]
            IN IF <<cell \div t.shape[2], cell % t.shape[2]>> \in rows
               THEN t.data[p] ELSE 0]]

\* attn[qp, hq, :] as the call left it
AttnStored(qp, hq) ==
    LET dv == kernel.a.v.shape[3]
    IN [i \in 1..dv |->
          kernel.out.attn_val[(qp * n_q_head(kernel.a.q) + hq) * dv + i]]

\* C19: with group = Hq / Hkv and C = min(qp + (T - S) + 1, T), the row
\* attn[qp, hq, :] is a function of q[qp, hq, :] and of k and v at
\* <<kp, hq div group>>, kp < C, alone: it is what the kernel computes when
\* every other element of q, k and v is replaced by zero, so two runs that
\* differ only there agree on the row; and no k or v position >= C, nor
\* another kv head, is read for that query
C19_CausalMaskAndGrouping ==
    (AttentionDone /\ WithinCache) =>
        LET q     == kernel.a.q
            k     == kernel.a.k
            v     == kernel.a.v
            S     == q.shape[1]
            T     == k.shape[1]
            group == q.shape[2] \div k.shape[2]
        IN \A qp \in 0..S - 1, hq \in 0..q.shape[2] - 1 :
             LET C    == Min2(qp + (T - S) + 1, T)
                 kept == (0..C - 1) \X {hq \div group}
             IN /\ AttnStored(qp, hq) =
                      attnRow(KeepRows(q, {<<qp, hq>>}), KeepRows(k, kept),
                              KeepRows(v, kept), kernel.a.scale, qp, hq)
                /\ kernel.visits[<<qp, hq>>] \subseteq kept

\* two query positions over two kv heads: the row of query 0, head 1 is the
\* value at <<0, 1>>, which is 0, although the masked position <<1, 1>> and
\* the other head <<0, 0>> both hold 1
C19_Witness ==
    /\ AttentionDone /\ WithinCache
    /\ kernel.a.q.shape = <<2, 2, 1>> /\ kernel.a.k.shape = <<2, 2, 1>>
    /\ kernel.a.scale = 1
    /\ kernel.a.q.data = <<1, 1, 1, 1>>
    /\ kernel.a.k.data = <<1, 1, 1, 1>>
    /\ kernel.a.v.data = <<1, 0, 1, 1>>
    /\ AttnStored(0, 1)[1][1] = 0
    /\ AttnStored(1, 1)[1][1] > 0
    /\ kernel.visits[<<0, 1>>] = {<<0, 1>>}

\* C20: with scale = 0 every visited key position gets the softmax weight
\* 1/C, so attn[qp, hq, i] is the mean over kp < C of v[kp, hq div group, i]:
\* for the stored ratio <<num, den>>, num / den = (sum of v) / C
C20_ZeroScaleIsMean ==
    (AttentionDone /\ WithinCache /\ kernel.a.scale = 0) =>
        LET q     == kernel.a.q
            k     == kernel.a.k
            v     == kernel.a.v
            S     == q.shape[1]
            T     == k.shape[1]
            Hkv   == k.shape[2]
            dv    == v.shape[3]
            group == q.shape[2] \div Hkv
        IN \A qp \in 0..S - 1, hq \in 0..q.shape[2] - 1 :
             LET C   == Min2(qp + (T - S) + 1, T)
                 hkv == hq \div group
                 e   == attnExp(attnScores(q, k, 0, qp, hq))
             IN /\ C >= 1
                /\ Len(e) = C
                /\ \A kp \in 1..C : e[kp] * C = SeqSum(e)
                /\ \A i \in 1..dv :
                     LET cell == AttnStored(qp, hq)[i]
                         sumv == SeqSum([kp \in 1..C |->
                                    v.data[((kp - 1) * Hkv + hkv) * dv + i]])
                     IN cell[2] > 0 /\ cell[1] * C = sumv * cell[2]

\* one query over a cache of two positions holding 1 and 0: the output is
\* 1/2 although q and k[0] are non-zero
C20_Witness ==
    /\ AttentionDone /\ WithinCache /\ kernel.a.scale = 0
    /\ kernel.a.q.shape = <<1, 1, 1>> /\ kernel.a.k.shape = <<2, 1, 1>>
    /\ kernel.a.q.data = <<1>>
    /\ kernel.a.k.data = <<1, 0>>
    /\ kernel.a.v.data = <<1, 0>>
    /\ AttnStored(0, 0)[1][1] * 2 = AttnStored(0, 0)[1][2]

(* ------------------------------- linear -------------------------------- *)
LinearDone == kernel.op = "linear" /\ kernel.ok

\* C21: after a successful linear(out[B,O], in[B,I], weight[O,I], bias),
\* out[b,o] is the sum over i in [0,I) of in[b,i] * weight[o,i], each index
\* once, plus bias[o], or plus 0 when bias is absent
C21_LinearIsAffine ==
    LinearDone =>
        LET in     == kernel.a.in
            weight == kernel.a.weight
            bias   == kernel.a.bias
            B      == in.shape[1]
            I      == in.shape[2]
            O      == weight.shape[1]
        IN /\ Len(kernel.out.out) = B * O
           /\ \A b \in 0..B - 1, o \in 0..O - 1 :
                kernel.out.out[b * O + o + 1] =
                    SeqSum([i \in 1..I |->
                              in.data[b * I + i] * weight.data[o * I + i]])
                    + (IF bias = NoBias THEN 0 ELSE bias.data[o + 1])

\* in [[1,2]], weight [[1,0],[0,1],[1,1]], no bias gave [[1,2,3]]
C21_Witness ==
    /\ LinearDone
    /\ kernel.a.in.data = <<1, 2>>
    /\ kernel.a.weight.data = <<1, 0, 0, 1, 1, 1>>
    /\ kernel.a.bias = NoBias
    /\ kernel.out.out = <<1, 2, 3>>

\* in_features = 5: one unrolled round and one remainder step, every
\* weight 1, with a bias: out[0,0] = 1 + 3 + 9 + 27 + 81 + bias[0]
LinearRemainderWitness ==
    /\ LinearDone
    /\ kernel.a.in.shape = <<1, 5>>
    /\ kernel.a.weight.data = Ones(5)
    /\ kernel.a.bias # NoBias
    /\ kernel.out.out = <<122>>

\* in_features = 3 < 4: the remainder loop alone
LinearShortWitness ==
    /\ LinearDone
    /\ kernel.a.in.shape = <<1, 3>>
    /\ kernel.a.weight.data = <<1, 0, 1>>
    /\ kernel.a.bias = NoBias
    /\ kernel.out.out = <<10>>

(* ------------------------------ rms_norm ------------------------------- *)
RmsNormDone == kernel.op = "rms_norm" /\ kernel.ok

Sign(x) == IF x > 0 THEN 1 ELSE IF x < 0 THEN -1 ELSE 0

\* sum_sq / hidden_size + eps is positive: the element is a finite number
RmsDefined(t) == t[3] + t[4] * t[5] > 0

\* two output elements n / sqrt(sum_sq / H + eps) are the same number:
\* same sign and same square, compared by cross-multiplication; two
\* elements over a zero radicand are the same NaN
RmsSame(a, b) ==
    IF ~RmsDefined(a) /\ ~RmsDefined(b) THEN TRUE
    ELSE /\ RmsDefined(a) /\ RmsDefined(b)
         /\ Sign(a[2]) = Sign(b[2])
         /\ a[2] * a[2] * a[4] * (b[3] + b[4] * b[5])
              = b[2] * b[2] * b[4] * (a[3] + a[4] * a[5])

\* the tensor with every element multiplied by alpha
Scaled(t, alpha) ==
    [t EXCEPT !.data = [p \in 1..Len(t.data) |-> alpha * t.data[p]]]

\* what rms_norm leaves in out for the input alpha * in and the given eps
RmsNormOfScaled(alpha, eps) ==
    rms_normOut(kernel.a.out, Scaled(kernel.a.in, alpha), kernel.a.weight, eps)

\* C22 as stated: for every in, weight, eps and alpha > 0, rms_norm of
\* alpha * in is rms_norm of in
C22_ScaleInvariant ==
    RmsNormDone =>
        \A alpha \in 1..MaxAlpha, p \in 1..numel(kernel.a.in) :
            RmsSame(kernel.out.out[p], RmsNormOfScaled(alpha, kernel.a.eps)[p])

\* C22 amended: out[b,i] = weight[i] * in[b,i] / sqrt((sum_j in[b,j]^2) / H
\* + eps); rms_norm of alpha * in with alpha^2 * eps is rms_norm of in with
\* eps, so rms_norm is scale invariant in in alone when eps = 0, and for
\* eps > 0 and alpha > 1 exactly the elements with weight[i] * in[b,i] = 0
\* are unchanged
C22_ScaleInvariantUpToEps ==
    RmsNormDone =>
        LET in  == kernel.a.in
            w   == kernel.a.weight
            eps == kernel.a.eps
            H   == in.shape[2]
        IN /\ \A p \in 1..numel(in) :
                LET b == (p - 1) \div H
                    i == (p - 1) % H
                IN kernel.out.out[p] =
                     <<"rms_norm", w.data[i + 1] * in.data[p],
                       SeqSum([j \in 1..H |-> in.data[b * H + j] * in.data[b * H + j]]),
                       H, eps>>
           /\ \A alpha \in 1..MaxAlpha, p \in 1..numel(in) :
                /\ RmsSame(kernel.out.out[p],
                           RmsNormOfScaled(alpha, alpha * alpha * eps)[p])
                /\ eps = 0 =>
                     RmsSame(kernel.out.out[p], RmsNormOfScaled(alpha, eps)[p])
                /\ (eps > 0 /\ alpha > 1) =>
                     (RmsSame(kernel.out.out[p], RmsNormOfScaled(alpha, eps)[p])
                        <=> kernel.out.out[p][2] = 0)

\* the row [1, 2] under weight [1, 1] and eps = 1: out[0,0] = 1 / sqrt(3.5),
\* while twice the row gives 2 / sqrt(11) with eps = 1 and 2 / sqrt(14) =
\* 1 / sqrt(3.5) with eps = 4
C22_Witness ==
    /\ RmsNormDone
    /\ kernel.a.in.data = <<1, 2>> /\ kernel.a.in.shape = <<1, 2>>
    /\ kernel.a.weight.data = <<1, 1>>
    /\ kernel.a.eps = 1
    /\ kernel.out.out[1] = <<"rms_norm", 1, 5, 2, 1>>
    /\ RmsNormOfScaled(2, 1)[1] = <<"rms_norm", 2, 20, 2, 1>>
    /\ ~RmsSame(kernel.out.out[1], RmsNormOfScaled(2, 1)[1])
    /\ RmsSame(kernel.out.out[1], RmsNormOfScaled(2, 4)[1])

\* with eps = 0 the same row is unchanged by the factor 2
RmsNormZeroEpsWitness ==
    /\ RmsNormDone
    /\ kernel.a.in.data = <<1, 2>> /\ kernel.a.in.shape = <<1, 2>>
    /\ kernel.a.weight.data = <<1, 1>>
    /\ kernel.a.eps = 0
    /\ RmsSame(kernel.out.out[1], RmsNormOfScaled(2, 0)[1])

(* ------------------------------- swiglu -------------------------------- *)
\* a successful call whose out is the tensor passed as gate or as up
SwigluInPlaceDone ==
    kernel.op = "swiglu" /\ kernel.ok /\ "outIs" \in DOMAIN kernel.a

\* C23: swiglu with out the same tensor as gate, or as up, leaves in out
\* what a call with a separate out leaves there for the original gate and
\* up, element i from gate[i] and up[i] alone, and touches no other element
C23_SwigluInPlace ==
    SwigluInPlaceDone =>
        LET gate  == kernel.a.gate
            up    == kernel.a.up
            fresh == [gate EXCEPT !.data = Stale(Len(gate.data))]
        IN /\ kernel.out.out = swigluOut(fresh, gate, up)
           /\ \A i \in 1..numel(gate) :
                kernel.out.out[i] = <<"swiglu", gate.data[i], up.data[i]>>
           /\ kernel.a.outIs = "gate" =>
                (kernel.out.gate = kernel.out.out /\ kernel.out.up = up.data)
           /\ kernel.a.outIs = "up" =>
                (kernel.out.up = kernel.out.out /\ kernel.out.gate = gate.data)

\* out was gate itself, two elements, and holds the products of the
\* original elements
C23_Witness ==
    /\ SwigluInPlaceDone
    /\ kernel.a.outIs = "gate"
    /\ kernel.a.gate.data = <<1, -1>>
    /\ kernel.a.up.data = <<-1, 1>>
    /\ kernel.out.out = << <<"swiglu", 1, -1>>, <<"swiglu", -1, 1>> >>
    /\ kernel.out.up = <<-1, 1>>

\* out was up itself
SwigluInPlaceUpWitness ==
    /\ SwigluInPlaceDone
    /\ kernel.a.outIs = "up"
    /\ kernel.a.gate.data = <<1, -1>>
    /\ kernel.a.up.data = <<-1, 1>>
    /\ kernel.out.out = << <<"swiglu", 1, -1>>, <<"swiglu", -1, 1>> >>
    /\ kernel.out.gate = <<1, -1>>

(* -------------------------------- rope --------------------------------- *)
RopeCalled == kernel.op = "rope"

RopeDone == RopeCalled /\ kernel.ok

\* every pos_ids[s] is 0
RopeAtOrigin ==
    \A s \in 1..Len(kernel.a.pos_ids.data) : kernel.a.pos_ids.data[s] = 0

\* arguments rope accepts but for the parity of D
RopeWellShaped ==
    /\ RopeCalled
    /\ ArgsOnOneDevice /\ ArgsOfOneDtype /\ ~SomeArgNonContiguous
    /\ ndim(kernel.a.out) = 3 /\ ndim(kernel.a.in) = 3
    /\ ndim(kernel.a.pos_ids) = 1
    /\ kernel.a.out.shape = kernel.a.in.shape
    /\ numel(kernel.a.pos_ids) = kernel.a.in.shape[1]

\* C24 as stated: for every S, H, even D and theta, rope with every
\* pos_ids[s] = 0 leaves out[s,h,j] = in[s,h,j]; rope fails when D is odd
C24_RopeIdentityAtOrigin ==
    /\ (RopeDone /\ RopeAtOrigin) =>
          \A p \in 1..numel(kernel.a.in) :
              kernel.out.out[p] = Val(kernel.a.in.data[p])
    /\ (RopeWellShaped /\ kernel.a.in.shape[3] % 2 = 1) => ~kernel.ok

\* C24 amended: the identity holds for every theta > 0, and for every theta
\* when D = 2; for theta <= 0 and D >= 4 the pairs i >= 1 come out as NaN
\* (0 / theta^(2i/D) is 0/0 or 0/NaN); away from the origin element i of the
\* first half is rotated with element D/2 + i; rope fails when D is odd
C24_RopeIdentityPositiveTheta ==
    /\ (RopeDone /\ RopeAtOrigin) =>
          LET in == kernel.a.in
              D  == in.shape[3]
          IN \A p \in 1..numel(in) :
               LET i == ((p - 1) % D) % (D \div 2)
               IN IF kernel.a.theta > 0 \/ i = 0
                  THEN kernel.out.out[p] = Val(in.data[p])
                  ELSE kernel.out.out[p] = NaN
    /\ (RopeDone /\ kernel.a.theta = 10000) =>
          LET in == kernel.a.in
              D  == in.shape[3]
          IN \A p \in 1..numel(in) :
               LET head == (p - 1) \div D
                   j    == (p - 1) % D
                   i    == j % (D \div 2)
                   pos  == kernel.a.pos_ids.data[(head \div in.shape[2]) + 1]
                   a    == in.data[head * D + i + 1]
                   b    == in.data[head * D + (D \div 2) + i + 1]
               IN pos # 0 =>
                    /\ kernel.out.out[p][1] = (IF j < D \div 2 THEN "y_a" ELSE "y_b")
                    /\ kernel.out.out[p][2] = (IF j < D \div 2 THEN a ELSE b)
                    /\ kernel.out.out[p][3] = (IF j < D \div 2 THEN b ELSE a)
    /\ (RopeWellShaped /\ kernel.a.in.shape[3] % 2 = 1) =>
          (~kernel.ok /\ kernel.err = "RoPE: dimension d must be even"
           /\ ComputedNothing)

\* D = 4, theta = 10000, every position 0: out is in
C24_Witness ==
    /\ RopeDone /\ RopeAtOrigin
    /\ kernel.a.in.shape = <<2, 2, 4>>
    /\ kernel.a.theta = 10000
    /\ kernel.out.out = [p \in 1..16 |-> Val(p)]

\* D = 4, theta = 0, position 0: the second pair of each head is NaN
RopeZeroThetaWitness ==
    /\ RopeDone /\ RopeAtOrigin
    /\ kernel.a.in.shape = <<1, 1, 4>>
    /\ kernel.a.theta = 0
    /\ kernel.out.out = <<Val(1), NaN, Val(3), NaN>>

\* an odd D was rejected
RopeOddWitness ==
    /\ RopeWellShaped /\ kernel.a.in.shape[3] = 3
    /\ kernel.err = "RoPE: dimension d must be even"

(* ------------------------- checks before writes ------------------------ *)
\* the output tensors of each kernel
outputsOf(op) ==
    CASE op = "argmax"         -> {"max_idx", "max_val"}
      [] op = "self_attention" -> {"attn_val"}
      [] OTHER                 -> {"out"}

FailureClassesWitness(class) ==
    /\ Called /\ ~kernel.ok
    /\ CASE class = "device" -> kernel.err = "device mismatch"
         [] class = "contiguity" -> kernel.err = "RoPE: all tensors must be contiguous"
         [] class = "rank" -> kernel.err = "RMSNorm: output must be 2-D tensor"
         [] class = "shape" -> kernel.err = "SelfAttention: attn_val shape mismatch"
         [] class = "dtype" -> kernel.err = "dtype mismatch"
         [] class = "cpu" -> kernel.err = "unsupported device"
         [] class = "supported" -> kernel.err = "argmax: unsupported data type"
         [] class = "empty" -> kernel.err = "argmax: invalid input tensor"

FailedOnDeviceWitness     == FailureClassesWitness("device")
FailedOnContiguityWitness == FailureClassesWitness("contiguity")
FailedOnRankWitness       == FailureClassesWitness("rank")
FailedOnShapeWitness      == FailureClassesWitness("shape")
FailedOnDtypeWitness      == FailureClassesWitness("dtype")
FailedOffHostWitness      == FailureClassesWitness("cpu")
FailedOnUnsupportedWitness == FailureClassesWitness("supported")
FailedOnEmptyWitness      == FailureClassesWitness("empty")

(* ---------------------------- context_len ------------------------------ *)
\* C26: in every self_attention call that passes its checks, also when
\* T < S, 1 <= context_len <= T for every query position, so every query
\* attends to at least one key position
C26_ContextLenAtLeastOne ==
    AttentionDone =>
        \A qp \in 0..seq_len(kernel.a.q) - 1, hq \in 0..n_q_head(kernel.a.q) - 1 :
            /\ contextOf(kernel.a.q, kernel.a.k, qp) >= 1
            /\ contextOf(kernel.a.q, kernel.a.k, qp) <= total_len(kernel.a.k)
            /\ kernel.visits[<<qp, hq>>] # {}

\* with T >= S the difference does not wrap and the bound holds
ContextLenWithinCache ==
    (AttentionDone /\ WithinCache) =>
        \A qp \in 0..seq_len(kernel.a.q) - 1, hq \in 0..n_q_head(kernel.a.q) - 1 :
            /\ contextOf(kernel.a.q, kernel.a.k, qp) >= 1
            /\ contextOf(kernel.a.q, kernel.a.k, qp) <= total_len(kernel.a.k)
            /\ kernel.visits[<<qp, hq>>] # {}

ContextLenWithinCacheWitness ==
    /\ AttentionDone /\ WithinCache
    /\ seq_len(kernel.a.q) = 1 /\ total_len(kernel.a.k) = 2
    /\ contextOf(kernel.a.q, kernel.a.k, 0) = 2

\* S = 2 over T = 1 passed the checks: kv_offset wrapped to the largest
\* size_t, query 0 got context_len 0, visited nothing and its row is zero
\* whatever v holds
ContextLenZeroReached ==
    /\ AttentionDone
    /\ seq_len(kernel.a.q) = 2 /\ total_len(kernel.a.k) = 1
    /\ kv_offset(1, 2) = SizeWrap(-1)
    /\ contextOf(kernel.a.q, kernel.a.k, 0) = 0
    /\ kernel.visits[<<0, 0>>] = {}
    /\ kernel.a.v.data[1] = 1
    /\ AttnStored(0, 0)[1] = <<0, 1>>

(* ===================================================================== *)
(* load on a view                                                        *)
(* ===================================================================== *)
\* the step is a call of load
LoadStep == nops' = nops + 1 /\ last'.op = "load"

\* the tensor load is called on, and the bytes of its storage before and
\* after the call
LoadT       == tensors[last'.src]
LoadBefore  == storages[LoadT.storage].mem
LoadAfter   == storages'[LoadT.storage].mem

\* the byte addresses the view reaches through its multi-indices
ViewBytes(t) ==
    {ElemAddr(t, idx) + k : idx \in MultiIdx(t.shape), k \in 0..elementSize(t) - 1}

\* the row-major position of a multi-index
RowMajorPos(shape, idx) == Dot(idx, RowMajor(shape))

\* load(src) on t changed only what t addresses, and t's element at
\* row-major position n holds the n-th element of src
LoadFillsView(t) ==
    /\ \A a \in 0..Len(LoadBefore) - 1 :
          a \notin ViewBytes(t) => LoadAfter[a + 1] = LoadBefore[a + 1]
    /\ \A idx \in MultiIdx(t.shape), k \in 1..elementSize(t) :
          LoadAfter[ElemAddr(t, idx) + k] =
              HostBytes(last'.arg[1], numel(t) * elementSize(t))
                  [RowMajorPos(t.shape, idx) * elementSize(t) + k]

\* C27: load on a view obtained by slice and/or permute changes only the
\* elements the view addresses: every other element of the shared storage
\* keeps its value, and the view's element at row-major position n holds the
\* n-th element of src
C27_LoadChangesOnlyTheView ==
    [][(LoadStep /\ WellFormed(LoadT)) => LoadFillsView(LoadT)]_vars

\* load on a contiguous tensor or view (create, view, a slice of the first
\* axis) does so
LoadFillsContiguousView ==
    [][(LoadStep /\ WellFormed(LoadT) /\ isContiguous(LoadT))
          => LoadFillsView(LoadT)]_vars

\* the second row of a [2,2] tensor was loaded: bytes 2 and 3 hold src, bytes
\* 0 and 1 are as create left them
LoadFillsContiguousViewWitness ==
    /\ last.op = "load" /\ last.ok
    /\ SrcT.shape = <<1, 2>> /\ SrcT.offset = 2 /\ SrcT.dtype = "I8"
    /\ Size(SrcT) = 4
    /\ \E f \in Fills, b \in LoadBases :
          Mem(SrcT) = <<f + 1, f + 2, b + 1, b + 2>>

\* the first column of a [2,2] tensor was loaded: the two bytes of src went
\* to bytes 0 and 1, so byte 1, outside the view, was overwritten and the
\* view's element (1,0) at byte 2 was not
LoadOverColumnReached ==
    /\ last.op = "load" /\ last.ok
    /\ SrcT.shape = <<2, 1>> /\ SrcT.strides = <<2, 1>> /\ SrcT.offset = 0
    /\ SrcT.dtype = "I8" /\ Size(SrcT) = 4
    /\ \E f \in Fills, b \in LoadBases :
          Mem(SrcT) = <<b + 1, b + 2, f + 3, f + 4>>
====
